---------------------------- MODULE Spec2Model ----------------------------
(***************************************************************************)
(* A model of src/app.py: the roster normalisation, recipient resolution,  *)
(* CC policy, subject/body splitting and prompt assembly helpers, the      *)
(* roster part of the page script that stores the roster in the session,   *)
(* the diarized transcript, the audio pipeline, the roster save to the     *)
(* drive, and the mail preview and send blocks with their two backends.    *)
(*                                                                         *)
(* Text is a sequence of one-character strings, so that str.strip(),       *)
(* str.lower(), str.split() and str.splitlines() are computed character by *)
(* character.  A cell or argument of dynamic type is a record              *)
(* [t, s, v, n]: t is the Python type, s the text of a str, v the value of *)
(* a bool, n the value of an int.                                          *)
(***************************************************************************)
EXTENDS Integers, Sequences, FiniteSets, TLC

VARIABLES
    pc,         \* position: which function or script block runs next
    arg,        \* the arguments of the call being made (a record)
    ret,        \* what the call returned or raised
    roster_df,  \* st.session_state["roster_df"]
    shown,      \* the st.error / st.success messages of the current run
    session,    \* the other keys of st.session_state (a record)
    remote      \* the remote services: what they hold and the calls made to them

vars == <<pc, arg, ret, roster_df, shown, session, remote>>

\* session and remote in the specifications of functions that touch neither
Unused == <<>>

-----------------------------------------------------------------------------
(* Bounds of the model. *)

MaxBLen == 3
MaxCcLen == 4
MaxTextLen == 4
MaxMetaKeys == 1
MaxPayloadKeys == 2
MaxCols == 3
MaxRows == 2
MaxRosterRows == 2
MaxExtRows == 1
MaxGridRows == 1

-----------------------------------------------------------------------------
(* Text. *)

SeqsUpTo(S, n) == UNION {[1..k -> S] : k \in 0..n}

\* the sequence f, written out element by element
Seq1(f) == f \o <<>>

UpperToLower ==
    [A |-> "a", B |-> "b", C |-> "c", D |-> "d", E |-> "e", F |-> "f",
     G |-> "g", H |-> "h", I |-> "i", J |-> "j", K |-> "k", L |-> "l",
     M |-> "m", N |-> "n", O |-> "o", P |-> "p", Q |-> "q", R |-> "r",
     S |-> "s", T |-> "t", U |-> "u", V |-> "v", W |-> "w", X |-> "x",
     Y |-> "y", Z |-> "z"]

LowerChar(c) == IF c \in DOMAIN UpperToLower THEN UpperToLower[c] ELSE c

\* str.lower()
Lower(s) == Seq1([i \in 1..Len(s) |-> LowerChar(s[i])])

\* the characters str.strip() and str.splitlines() treat as white space
IsSpace(c) == c \in {" ", "\t", "\n", "\r"}

RECURSIVE LStrip(_)
LStrip(s) ==
    IF s # <<>> /\ IsSpace(Head(s)) THEN LStrip(Tail(s)) ELSE s

RECURSIVE RStrip(_)
RStrip(s) ==
    IF s # <<>> /\ IsSpace(s[Len(s)]) THEN RStrip(SubSeq(s, 1, Len(s) - 1)) ELSE s

\* str.strip()
Strip(s) == RStrip(LStrip(s))

\* s.replace(a, b) for single characters a and b
Replace(s, a, b) == Seq1([i \in 1..Len(s) |-> IF s[i] = a THEN b ELSE s[i]])

\* s.split(sep) for a single character sep: the pieces between the seps
RECURSIVE SplitOn(_, _, _)
SplitOn(s, sep, cur) ==
    IF s = <<>> THEN <<cur>>
    ELSE IF Head(s) = sep THEN <<cur>> \o SplitOn(Tail(s), sep, <<>>)
    ELSE SplitOn(Tail(s), sep, Append(cur, Head(s)))

Split(s, sep) == SplitOn(s, sep, <<>>)

\* s.splitlines(): the lines of s, broken at "\n", "\r" and "\r\n"; a line
\* break at the very end opens no further line
RECURSIVE SplitlinesFrom(_, _)
SplitlinesFrom(s, cur) ==
    IF s = <<>> THEN (IF cur = <<>> THEN <<>> ELSE <<cur>>)
    ELSE IF Head(s) = "\r" /\ Len(s) >= 2 /\ s[2] = "\n"
         THEN <<cur>> \o SplitlinesFrom(SubSeq(s, 3, Len(s)), <<>>)
    ELSE IF Head(s) \in {"\n", "\r"}
         THEN <<cur>> \o SplitlinesFrom(Tail(s), <<>>)
    ELSE SplitlinesFrom(Tail(s), Append(cur, Head(s)))

Splitlines(s) == SplitlinesFrom(s, <<>>)

\* sep.join(parts) for a single character sep
RECURSIVE Join(_, _)
Join(parts, sep) ==
    IF parts = <<>> THEN <<>>
    ELSE IF Len(parts) = 1 THEN parts[1]
    ELSE parts[1] \o <<sep>> \o Join(Tail(parts), sep)

\* s.split(sep, 1)[1]: what follows the first sep of s (s holds one)
RECURSIVE AfterFirst(_, _)
AfterFirst(s, sep) ==
    IF s = <<>> THEN <<>>
    ELSE IF Head(s) = sep THEN Tail(s) ELSE AfterFirst(Tail(s), sep)

\* the subsequence of s at the indices in I, in increasing order
Pick(s, I) ==
    LET F[k \in 0..Len(s)] ==
            IF k = 0 THEN <<>>
            ELSE IF k \in I THEN Append(F[k - 1], s[k]) ELSE F[k - 1]
    IN F[Len(s)]

\* s.startswith(p)
StartsWith(s, p) == Len(s) >= Len(p) /\ SubSeq(s, 1, Len(p)) = p

-----------------------------------------------------------------------------
(* Values of dynamic type. *)

PyStr(s) == [t |-> "str", s |-> s, v |-> FALSE, n |-> 0]
PyBool(v) == [t |-> "bool", s |-> <<>>, v |-> v, n |-> 0]
PyInt(n) == [t |-> "int", s |-> <<>>, v |-> FALSE, n |-> n]
PyNaN == [t |-> "nan", s |-> <<>>, v |-> FALSE, n |-> 0]
PyNone == [t |-> "none", s |-> <<>>, v |-> FALSE, n |-> 0]

Digit(d) == <<"0", "1", "2", "3", "4", "5", "6", "7", "8", "9">>[d + 1]

RECURSIVE Decimal(_)
Decimal(n) == IF n < 10 THEN <<Digit(n)>> ELSE Decimal(n \div 10) \o <<Digit(n % 10)>>

\* str(value)
StrOf(x) ==
    CASE x.t = "str" -> x.s
      [] x.t = "bool" -> IF x.v THEN <<"T", "r", "u", "e">> ELSE <<"F", "a", "l", "s", "e">>
      [] x.t = "int" -> Decimal(x.n)
      [] x.t = "nan" -> <<"n", "a", "n">>
      [] OTHER -> <<"N", "o", "n", "e">>

-----------------------------------------------------------------------------
(* b: boolean coercion. *)

TruthyStrings ==
    { <<"1">>, <<"t", "r", "u", "e">>, <<"y", "e", "s">>, <<"y">>, <<"o", "n">> }

\* b with the strip() left out
b_nostrip(value) ==
    IF value.t = "bool" THEN value.v ELSE Lower(StrOf(value)) \in TruthyStrings

b(value) ==
    IF value.t = "bool"
    THEN value.v
    ELSE Lower(Strip(StrOf(value))) \in TruthyStrings

BAlphabet == {"o", "n", "N", "y", " ", "1"}

BExamples ==
    { <<"Y", "E", "S">>, <<" ", "O", "n", " ">>, <<"0">>, <<"t", "r", "u", "e">>,
      <<"T", "R", "U", "E">>, <<"y", "e", "s", " ">>, <<"n", "o">>, <<"o", "f", "f">>,
      <<"f", "a", "l", "s", "e">>, <<"t", "r", "u", "e", "x">> }

BInputs(len) ==
    {PyBool(TRUE), PyBool(FALSE), PyNaN, PyNone} \cup {PyInt(n) : n \in {0, 1, 2, 10, 11}}
        \cup {PyStr(s) : s \in SeqsUpTo(BAlphabet, len) \cup BExamples}

InitB ==
    /\ pc = "b"
    /\ arg \in {[value |-> x] : x \in BInputs(MaxBLen)}
    /\ ret = FALSE
    /\ roster_df = <<>>
    /\ shown = <<>>
    /\ session = Unused
    /\ remote = Unused

CallB ==
    /\ pc = "b"
    /\ ret' = b(arg.value)
    /\ pc' = "b_done"
    /\ UNCHANGED <<arg, roster_df, shown>>
    /\ UNCHANGED <<session, remote>>

NextB == CallB

SpecB == InitB /\ [][NextB]_vars

\* s is tok in any letter case, with white space before and after it
IsPaddedCaseVariant(s, tok) ==
    \E i \in 0..Len(s) :
        /\ i + Len(tok) <= Len(s)
        /\ \A k \in 1..i : IsSpace(s[k])
        /\ \A k \in 1..Len(tok) : LowerChar(s[i + k]) = tok[k]
        /\ \A k \in (i + Len(tok) + 1)..Len(s) : IsSpace(s[k])

\* C8: b returns a boolean unchanged, and is otherwise true exactly when the
\* string form of the value is one of "1", "true", "yes", "y", "on" in any
\* letter case with surrounding white space; "YES" and " On " give true, "0"
\* and "" give false.
C8_BoolCoercion ==
    pc = "b_done" =>
        LET x == arg.value IN
        /\ x.t = "bool" => ret = x.v
        /\ x.t # "bool" =>
              (ret <=> \E tok \in TruthyStrings : IsPaddedCaseVariant(StrOf(x), tok))
        /\ x = PyStr(<<"Y", "E", "S">>) => ret
        /\ x = PyStr(<<" ", "O", "n", " ">>) => ret
        /\ x = PyStr(<<"0">>) => ~ret
        /\ x = PyStr(<<>>) => ~ret

C8_Witness ==
    /\ pc = "b_done"
    /\ arg.value = PyStr(<<" ", "O", "n", " ">>)
    /\ ret = TRUE

-----------------------------------------------------------------------------
(* uniq, parse_email_csv, cc_for: the CC list of one recipient. *)

RECURSIVE uniq_loop(_, _, _)
uniq_loop(items, out, seen) ==
    IF items = <<>> THEN out
    ELSE LET x == Strip(Head(items))
             k == Lower(x)
         IN IF x = <<>> THEN uniq_loop(Tail(items), out, seen)
            ELSE IF k \in seen THEN uniq_loop(Tail(items), out, seen)
            ELSE uniq_loop(Tail(items), Append(out, x), seen \cup {k})

uniq(items) == uniq_loop(items, <<>>, {})

parse_email_csv(text) ==
    IF text = <<>> THEN <<>> ELSE uniq(Split(Replace(text, ";", ","), ","))

\* cc_for without the removal of the recipient's own address
cc_for_keeps_self(recipient, manual_cc) ==
    uniq(IF recipient.cc_default /\ recipient.manager # <<>>
         THEN Append(manual_cc, recipient.manager)
         ELSE manual_cc)

cc_for(recipient, manual_cc) ==
    LET cc0 == IF recipient.cc_default /\ recipient.manager # <<>>
               THEN Append(manual_cc, recipient.manager)
               ELSE manual_cc
        cc == uniq(cc0)
        to == Lower(recipient.email)
    IN SelectSeq(cc, LAMBDA x : Lower(x) # to)

CcAlphabet == {"a", "A", "b", "m", ",", ";", " "}

CcExamples == { <<"m", ",", "b", ",", "a">>, <<"m", ";", " ", "M", ",", "b">> }

\* the recipients build_recipients can hand to cc_for: the address is trimmed
\* and not empty, the manager is trimmed
CcRecipients ==
    [name : {<<"n">>}, email : {<<"a">>, <<"A">>, <<"b">>}, team : {<<>>}, title : {<<>>},
     manager : {<<>>, <<"a">>, <<"B">>, <<"m">>}, cc_default : BOOLEAN]

InitCc ==
    /\ pc = "cc_for"
    /\ arg \in [recipient : CcRecipients,
                 manual_cc : {parse_email_csv(t) :
                                 t \in SeqsUpTo(CcAlphabet, MaxCcLen) \cup CcExamples}]
    /\ ret = <<>>
    /\ roster_df = <<>>
    /\ shown = <<>>
    /\ session = Unused
    /\ remote = Unused

CallCc ==
    /\ pc = "cc_for"
    /\ ret' = cc_for(arg.recipient, arg.manual_cc)
    /\ pc' = "cc_for_done"
    /\ UNCHANGED <<arg, roster_df, shown>>
    /\ UNCHANGED <<session, remote>>

NextCc == CallCc

SpecCc == InitCc /\ [][NextCc]_vars

\* manualCc followed by the manager's address when cc_default is set and the
\* manager is not empty
CcBase(recipient, manual_cc) ==
    manual_cc \o (IF recipient.cc_default /\ recipient.manager # <<>>
                  THEN <<recipient.manager>> ELSE <<>>)

\* C3: cc_for returns manualCc followed by the manager (only when cc_default
\* is true and manager is non-empty), keeping of the entries equal up to case
\* only the first and removing every entry equal up to case to the recipient's
\* own address; the recipient is never in the CC of their own message.
C3_EffectiveCc ==
    pc = "cc_for_done" =>
        LET base == CcBase(arg.recipient, arg.manual_cc)
            self == Lower(arg.recipient.email)
            keep == {i \in 1..Len(base) :
                        /\ Lower(base[i]) # self
                        /\ \A j \in 1..(i - 1) : Lower(base[j]) # Lower(base[i])}
        IN /\ ret = Pick(base, keep)
           /\ \A i \in 1..Len(ret) : Lower(ret[i]) # self

\* the example of the spec: self removed, the duplicate manager collapsed
C3_Witness ==
    /\ pc = "cc_for_done"
    /\ arg.recipient.email = <<"a">>
    /\ arg.recipient.cc_default
    /\ arg.recipient.manager = <<"m">>
    /\ arg.manual_cc = << <<"m">>, <<"b">>, <<"a">> >>
    /\ ret = << <<"m">>, <<"b">> >>

-----------------------------------------------------------------------------
(* parse_subject_body: the subject line and the body of a generated text. *)

SubjectMarker == <<"s", "u", "b", "j", "e", "c", "t", ":">>

\* parse_subject_body taking the subject line as it is, also when nothing
\* follows the colon
parse_subject_body_no_fallback(text, fallback) ==
    LET lines == Splitlines(Strip(text))
    IN IF lines # <<>> /\ StartsWith(Lower(lines[1]), SubjectMarker)
       THEN [subject |-> Strip(AfterFirst(lines[1], ":")),
             body |-> Strip(Join(Tail(lines), "\n"))]
       ELSE [subject |-> fallback, body |-> Strip(text)]

parse_subject_body(text, fallback) ==
    LET lines == Splitlines(Strip(text))
    IN IF lines # <<>> /\ StartsWith(Lower(lines[1]), SubjectMarker)
       THEN LET rest == Strip(AfterFirst(lines[1], ":"))
            IN [subject |-> IF rest # <<>> THEN rest ELSE fallback,
                body |-> Strip(Join(Tail(lines), "\n"))]
       ELSE [subject |-> fallback, body |-> Strip(text)]

TextPrefixes ==
    { <<>>,
      <<"S", "u", "b", "j", "e", "c", "t", ":">>,
      <<"s", "U", "B", "J", "E", "C", "T", ":">>,
      <<"S", "u", "b", "j", "e", "c", "t">>,
      <<"S", "u", "b", "j", ":">>,
      <<"\n", " ", "S", "u", "b", "j", "e", "c", "t", ":">>,
      <<"a", "S", "u", "b", "j", "e", "c", "t", ":">> }

TextAlphabet == {"a", " ", ":", "\n", "\r"}

TextExamples ==
    { <<"S", "u", "b", "j", "e", "c", "t", ":", " ", "H", "i", "\n", "B", "o", "d", "y", " ", "l", "i", "n", "e">>,
      <<"N", "o", " ", "s", "u", "b", "j", "e", "c", "t">> }

InitParse ==
    /\ pc = "parse_subject_body"
    /\ arg \in [text : {p \o r : p \in TextPrefixes, r \in SeqsUpTo(TextAlphabet, MaxTextLen)}
                          \cup TextExamples,
                 fallback : {<<"F", "b">>, <<>>}]
    /\ ret = <<>>
    /\ roster_df = <<>>
    /\ shown = <<>>
    /\ session = Unused
    /\ remote = Unused

CallParse ==
    /\ pc = "parse_subject_body"
    /\ ret' = parse_subject_body(arg.text, arg.fallback)
    /\ pc' = "parse_subject_body_done"
    /\ UNCHANGED <<arg, roster_df, shown>>
    /\ UNCHANGED <<session, remote>>

NextParse == CallParse

SpecParse == InitParse /\ [][NextParse]_vars

IsBreak(c) == c \in {"\n", "\r"}

\* s with every line break written as "\n"
RECURSIVE NormBreaks(_)
NormBreaks(s) ==
    IF s = <<>> THEN <<>>
    ELSE IF Head(s) = "\r" /\ Len(s) >= 2 /\ s[2] = "\n"
         THEN <<"\n">> \o NormBreaks(SubSeq(s, 3, Len(s)))
    ELSE IF IsBreak(Head(s)) THEN <<"\n">> \o NormBreaks(Tail(s))
    ELSE <<Head(s)>> \o NormBreaks(Tail(s))

\* C9: when the first line of the trimmed text starts with "Subject:" in any
\* letter case, the subject is what follows that colon, trimmed (the fallback
\* when that is empty), and the body is the lines after the first, joined and
\* trimmed; otherwise the subject is the fallback and the body the trimmed
\* text.  The subject is not empty when the fallback is not.
C9_SubjectBody ==
    pc = "parse_subject_body_done" =>
        LET t == Strip(arg.text)
            breaks == {i \in 1..Len(t) : IsBreak(t[i])}
            brk == IF breaks = {} THEN Len(t) + 1
                   ELSE CHOOSE i \in breaks : \A j \in breaks : i <= j
            first == SubSeq(t, 1, brk - 1)
            next == IF brk < Len(t) /\ t[brk] = "\r" /\ t[brk + 1] = "\n"
                    THEN brk + 2 ELSE brk + 1
            marked == /\ Len(first) >= 8
                      /\ \A k \in 1..8 : LowerChar(first[k]) = SubjectMarker[k]
            rest == Strip(SubSeq(first, 9, Len(first)))
        IN /\ marked =>
                /\ ret.subject = (IF rest = <<>> THEN arg.fallback ELSE rest)
                /\ ret.body = Strip(NormBreaks(SubSeq(t, next, Len(t))))
           /\ ~marked =>
                /\ ret.subject = arg.fallback
                /\ ret.body = t
           /\ arg.fallback # <<>> => ret.subject # <<>>

\* a subject line with nothing after the colon, and a body of two lines
C9_Witness ==
    /\ pc = "parse_subject_body_done"
    /\ arg.text = <<"s", "U", "B", "J", "E", "C", "T", ":", "\n", "a", "\r", "a">>
    /\ arg.fallback = <<"F", "b">>
    /\ ret = [subject |-> <<"F", "b">>, body |-> <<"a", "\n", "a">>]

-----------------------------------------------------------------------------
(* common_meta, build_prompt: the five prompt templates.  A prompt is the   *)
(* sequence of its pieces: the fixed text of the template between two       *)
(* interpolations (Lit), and the interpolated values of meta and of the     *)
(* payload p, each with the key it was read from.                           *)

PROMPTS == {"memo", "transcript", "agenda", "invite", "followup"}

Lit(name) == [piece |-> "lit", key |-> name, val |-> ""]

\* meta.get(key, '')
MetaGet(meta, key) ==
    [piece |-> "meta", key |-> key, val |-> IF key \in DOMAIN meta THEN meta[key] ELSE ""]

\* p.get(key, '')
PayloadGet(p, key) ==
    [piece |-> "payload", key |-> key, val |-> IF key \in DOMAIN p THEN p[key] ELSE ""]

MetaKeys ==
    <<"title", "datetime", "location", "host", "note_taker", "participants", "refs", "security">>

common_meta(meta) ==
    <<Lit("common instructions")>>
        \o Seq1([i \in 1..Len(MetaKeys) |-> MetaGet(meta, MetaKeys[i])])

Returned(text) == [raised |-> "", text |-> text]
Raised(error) == [raised |-> error, text |-> <<>>]

\* build_prompt with the agenda template forgotten
build_prompt_without_agenda(kind, meta, p) ==
    LET cm == common_meta(meta) IN
    IF kind = "memo"
    THEN Returned(cm \o <<Lit("memo: task and output format"), PayloadGet(p, "memo_text")>>)
    ELSE IF kind = "transcript"
    THEN Returned(cm \o <<Lit("transcript: task and output format"),
                          PayloadGet(p, "transcript_text")>>)
    ELSE IF kind = "invite"
    THEN Returned(cm \o <<Lit("invite: task and output format"), PayloadGet(p, "meeting_info")>>)
    ELSE IF kind = "followup"
    THEN Returned(cm \o
            <<Lit("followup: task, Subject:"), PayloadGet(p, "subject"),
              Lit("followup: salutation"), PayloadGet(p, "recipient_name"),
              Lit("followup: sections 1-2, 3)"), PayloadGet(p, "recipient_name"),
              Lit("followup: sections 3-6, document"), PayloadGet(p, "doc_url"),
              Lit("followup: other links"), PayloadGet(p, "refs"),
              Lit("followup: closing"), PayloadGet(p, "signature"),
              Lit("followup: summary"), PayloadGet(p, "summary")>>)
    ELSE Raised("ValueError")

build_prompt(kind, meta, p) ==
    LET cm == common_meta(meta) IN
    IF kind = "memo"
    THEN Returned(cm \o <<Lit("memo: task and output format"), PayloadGet(p, "memo_text")>>)
    ELSE IF kind = "transcript"
    THEN Returned(cm \o <<Lit("transcript: task and output format"),
                          PayloadGet(p, "transcript_text")>>)
    ELSE IF kind = "agenda"
    THEN Returned(cm \o <<Lit("agenda: task and output format"), PayloadGet(p, "purpose")>>)
    ELSE IF kind = "invite"
    THEN Returned(cm \o <<Lit("invite: task and output format"), PayloadGet(p, "meeting_info")>>)
    ELSE IF kind = "followup"
    THEN Returned(cm \o
            <<Lit("followup: task, Subject:"), PayloadGet(p, "subject"),
              Lit("followup: salutation"), PayloadGet(p, "recipient_name"),
              Lit("followup: sections 1-2, 3)"), PayloadGet(p, "recipient_name"),
              Lit("followup: sections 3-6, document"), PayloadGet(p, "doc_url"),
              Lit("followup: other links"), PayloadGet(p, "refs"),
              Lit("followup: closing"), PayloadGet(p, "signature"),
              Lit("followup: summary"), PayloadGet(p, "summary")>>)
    ELSE Raised("ValueError")

PayloadKeys ==
    {"memo_text", "transcript_text", "purpose", "meeting_info", "recipient_name",
     "subject", "doc_url", "refs", "signature", "summary"}

\* the dicts over the keys K with at most n keys present
DictsUpTo(K, V, n) ==
    UNION {[D -> V] : D \in {X \in SUBSET K : Cardinality(X) <= n}}

MetaKeySet == {MetaKeys[i] : i \in 1..Len(MetaKeys)}

\* meta_from_state: every key present
FullMeta == [k \in MetaKeySet |-> IF k = "title" THEN "Weekly" ELSE ""]

\* the payload of the follow-up loop: every follow-up key present
FollowupPayload ==
    [k \in {"recipient_name", "subject", "doc_url", "refs", "signature", "summary"} |->
        IF k = "recipient_name" THEN "Kim" ELSE IF k = "subject" THEN "Re" ELSE ""]

InitPrompt ==
    /\ pc = "build_prompt"
    /\ arg \in [kind : PROMPTS \cup {"", "Memo", "summary"},
                 meta : DictsUpTo(MetaKeySet, {"Weekly"}, MaxMetaKeys) \cup {FullMeta},
                 p : DictsUpTo(PayloadKeys, {"", "Kim"}, MaxPayloadKeys) \cup {FollowupPayload}]
    /\ ret = <<>>
    /\ roster_df = <<>>
    /\ shown = <<>>
    /\ session = Unused
    /\ remote = Unused

CallPrompt ==
    /\ pc = "build_prompt"
    /\ ret' = build_prompt(arg.kind, arg.meta, arg.p)
    /\ pc' = "build_prompt_done"
    /\ UNCHANGED <<arg, roster_df, shown>>
    /\ UNCHANGED <<session, remote>>

NextPrompt == CallPrompt

SpecPrompt == InitPrompt /\ [][NextPrompt]_vars

\* the payload keys each template interpolates
TemplateKeys(kind) ==
    CASE kind = "memo" -> {"memo_text"}
      [] kind = "transcript" -> {"transcript_text"}
      [] kind = "agenda" -> {"purpose"}
      [] kind = "invite" -> {"meeting_info"}
      [] kind = "followup" ->
            {"recipient_name", "subject", "doc_url", "refs", "signature", "summary"}

\* C10: build_prompt raises, and returns no text, exactly when kind is not
\* one of memo, transcript, agenda, invite, followup; for each of the five it
\* returns a text for every meta and payload, a missing key of the payload
\* or of meta being interpolated as the empty string.
C10_UnsupportedKind ==
    pc = "build_prompt_done" =>
        /\ arg.kind \notin PROMPTS => ret.raised = "ValueError" /\ ret.text = <<>>
        /\ arg.kind \in PROMPTS =>
              /\ ret.raised = ""
              /\ {ret.text[i].key : i \in {j \in 1..Len(ret.text) : ret.text[j].piece = "payload"}}
                    = TemplateKeys(arg.kind)
              /\ {ret.text[i].key : i \in {j \in 1..Len(ret.text) : ret.text[j].piece = "meta"}}
                    = MetaKeySet
              /\ \A i \in 1..Len(ret.text) :
                    /\ ret.text[i].piece = "payload" =>
                          ret.text[i].val = (IF ret.text[i].key \in DOMAIN arg.p
                                             THEN arg.p[ret.text[i].key] ELSE "")
                    /\ ret.text[i].piece = "meta" =>
                          ret.text[i].val = (IF ret.text[i].key \in DOMAIN arg.meta
                                             THEN arg.meta[ret.text[i].key] ELSE "")

\* a supported kind whose payload lacks the key of its template
C10_Witness ==
    /\ pc = "build_prompt_done"
    /\ arg.kind = "agenda"
    /\ "purpose" \notin DOMAIN arg.p
    /\ arg.meta = <<>>
    /\ ret.raised = ""
    /\ \E i \in 1..Len(ret.text) : ret.text[i] = [piece |-> "payload", key |-> "purpose", val |-> ""]

-----------------------------------------------------------------------------
(* The roster table.  A DataFrame is [none, columns, rows]: columns is the  *)
(* sequence of its column labels, rows the sequence of its rows, a row the  *)
(* sequence of its cells in column order; none marks the value None.        *)

ROSTER_SHEET == "Users"

REQ_COLS == << <<"N", "a", "m", "e">>, <<"E", "m", "a", "i", "l">> >>

OPT_COLS ==
    << <<"D", "e", "p", "t">>, <<"T", "i", "t", "l", "e">>, <<"T", "e", "a", "m">>, <<"R", "o", "l", "e">>, <<"L", "a", "n", "g">>, <<"T", "i", "m", "e", "z", "o", "n", "e">>,
       <<"I", "s", "C", "C", "D", "e", "f", "a", "u", "l", "t">>, <<"M", "a", "n", "a", "g", "e", "r", "E", "m", "a", "i", "l">> >>

AllCols == REQ_COLS \o OPT_COLS

\* col.lower() for each col of REQ_COLS + OPT_COLS (line 408)
AllColsLower == Seq1([j \in 1..Len(AllCols) |-> Lower(AllCols[j])])

IsCCDefault == <<"I", "s", "C", "C", "D", "e", "f", "a", "u", "l", "t">>

DataFrame(columns, rows) == [none |-> FALSE, columns |-> columns, rows |-> rows]

NoneDf == [none |-> TRUE, columns |-> <<>>, rows |-> <<>>]

DfReturned(df) == [raised |-> "", df |-> df]
DfRaised(error) == [raised |-> error, df |-> NoneDf]

roster_empty == DataFrame(AllCols, <<>>)

\* the positions of the columns labelled label
IndicesOf(columns, label) == {i \in 1..Len(columns) : columns[i] = label}

Last(I) == CHOOSE i \in I : \A j \in I : j <= i
First(I) == CHOOSE i \in I : \A j \in I : i <= j

\* lines 404-411: the labels are trimmed; m maps each lower-cased label to the
\* label itself, a later column replacing an earlier one of the same key; ren
\* maps m's label for each known column to the canonical name; rename
\* relabels every column whose label is a key of ren
RenamedColumns(columns) ==
    LET x == Seq1([i \in 1..Len(columns) |-> Strip(columns[i])])
        keys == Seq1([i \in 1..Len(x) |-> Lower(Strip(x[i]))])
        \* m.get(col.lower()): the position of the label, 0 for None
        m_get(j) == LET at == {i \in 1..Len(x) : keys[i] = AllColsLower[j]}
                    IN IF at = {} THEN 0 ELSE Last(at)
        src == Seq1([j \in 1..Len(AllCols) |-> m_get(j)])
        ren(label) == {j \in 1..Len(AllCols) : src[j] # 0 /\ x[src[j]] = label}
    IN Seq1([i \in 1..Len(x) |->
                IF ren(x[i]) # {} THEN AllCols[Last(ren(x[i]))] ELSE x[i]])

\* fillna("").astype(str).str.strip() of one cell
TextCell(cell) ==
    PyStr(Strip(IF cell.t \in {"nan", "none"} THEN <<>> ELSE StrOf(cell)))

\* lines 415-423 for one row: the cell of each canonical column (the default
\* of a column the table lacks), coerced
NormRow(columns, row) ==
    Seq1([j \in 1..Len(AllCols) |->
        LET at == IndicesOf(columns, AllCols[j])
        IN IF AllCols[j] = IsCCDefault
           THEN PyBool(IF at = {} THEN b(PyBool(FALSE)) ELSE b(row[First(at)]))
           ELSE IF at = {} THEN TextCell(PyStr(<<>>)) ELSE TextCell(row[First(at)])])

\* line 424: both Name and Email empty
BothEmpty(row) == row[1] = PyStr(<<>>) /\ row[2] = PyStr(<<>>)

\* line 424 with | for &
EitherEmpty(row) == row[1] = PyStr(<<>>) \/ row[2] = PyStr(<<>>)

\* roster_norm dropping the rows that lack a Name or an Email
roster_norm_drops_partial(df) ==
    IF df.none THEN DfReturned(roster_empty)
    ELSE LET cols == RenamedColumns(df.columns)
             miss == SelectSeq(REQ_COLS, LAMBDA c : IndicesOf(cols, c) = {})
             dup == {j \in 1..Len(AllCols) : Cardinality(IndicesOf(cols, AllCols[j])) > 1}
             rows == Seq1([i \in 1..Len(df.rows) |-> NormRow(cols, df.rows[i])])
         IN IF miss # <<>> THEN DfRaised("ValueError: required column missing")
            ELSE IF dup # {} THEN DfRaised("AttributeError")
            ELSE DfReturned(DataFrame(AllCols, SelectSeq(rows, LAMBDA r : ~EitherEmpty(r))))

\* roster_norm.  After the rename two columns can carry one canonical label
\* (" Name" and "Name", or "Name" and "name"); x[REQ_COLS + OPT_COLS] keeps
\* both, x[c] is then a DataFrame and not a Series, and line 423's .str
\* raises AttributeError (line 421's assignment of the applied frame raises
\* ValueError for a duplicated IsCCDefault).
roster_norm(df) ==
    IF df.none THEN DfReturned(roster_empty)
    ELSE LET cols == RenamedColumns(df.columns)
             miss == SelectSeq(REQ_COLS, LAMBDA c : IndicesOf(cols, c) = {})
             dup == {j \in 1..Len(AllCols) : Cardinality(IndicesOf(cols, AllCols[j])) > 1}
             rows == Seq1([i \in 1..Len(df.rows) |-> NormRow(cols, df.rows[i])])
         IN IF miss # <<>> THEN DfRaised("ValueError: required column missing")
            ELSE IF dup # {}
                 THEN IF AllCols[First(dup)] = IsCCDefault
                      THEN DfRaised("ValueError: duplicate labels")
                      ELSE DfRaised("AttributeError")
            ELSE DfReturned(DataFrame(AllCols, SelectSeq(rows, LAMBDA r : ~BothEmpty(r))))

\* An .xlsx file: the name of its sheet and the sheet's header row and cells
\* (kind "garbage": not a workbook).
Xlsx(sheet, columns, rows) ==
    [kind |-> "xlsx", sheet |-> sheet, columns |-> columns, rows |-> rows]

Garbage == [kind |-> "garbage", sheet |-> "", columns |-> <<>>, rows |-> <<>>]

\* roster_to_xlsx: df.to_excel(index=False, sheet_name=ROSTER_SHEET)
roster_to_xlsx(df) == Xlsx(ROSTER_SHEET, df.columns, df.rows)

\* the text cells pd.read_excel reads as missing (keep_default_na is left at
\* its default, True): the empty cell and pandas' default NA strings
NaStrings ==
    { <<>>, <<"N", "A">>, <<"N", "/", "A">>, <<"n", "/", "a">>, <<"n", "a", "n">>, <<"N", "a", "N">>, <<"n", "u", "l", "l">>, <<"N", "U", "L", "L">>, <<"N", "o", "n", "e">>, <<"#", "N", "/", "A">>, <<"<", "N", "A", ">">> }

ReadCell(cell) == IF cell.t = "str" /\ cell.s \in NaStrings THEN PyNaN ELSE cell

\* pd.read_excel(io.BytesIO(raw), sheet_name=ROSTER_SHEET)
read_excel(raw) ==
    DataFrame(raw.columns,
              Seq1([i \in 1..Len(raw.rows) |->
                      Seq1([k \in 1..Len(raw.rows[i]) |-> ReadCell(raw.rows[i][k])])]))

roster_load_bytes(raw) ==
    IF raw.kind # "xlsx" \/ raw.sheet # ROSTER_SHEET
    THEN DfRaised("ValueError: Users sheet not found")
    ELSE roster_norm(read_excel(raw))

\* the header cells of the uploaded tables
HeaderCandidates ==
    { <<"N", "a", "m", "e">>, <<" ", "N", "a", "m", "e">>, <<"n", "a", "m", "e">>, <<"E", "m", "a", "i", "l">>, <<"E", "M", "A", "I", "L", " ">>, <<"D", "e", "p", "t">>, <<"d", "e", "p", "t">>,
      <<"I", "s", "C", "C", "D", "e", "f", "a", "u", "l", "t">>, <<"N", "a", "m">> }

\* the header rows of at most n cells, no two cells alike (read_excel renames
\* a repeated header)
HeaderRows(n) ==
    {h \in SeqsUpTo(HeaderCandidates, n) :
        \A i, j \in 1..Len(h) : i # j => h[i] # h[j]}

AddressCells == {PyNaN, PyStr(<<" ">>), PyStr(<<"k">>), PyStr(<<" ", "N", "A">>)}
FlagCells == {PyBool(TRUE), PyStr(<<"Y", " ">>)}

\* tables of one row under every header row of up to c cells, and tables of
\* up to r rows under two header rows
RosterTables(c, r) ==
    {DataFrame(h, << Seq1([k \in 1..Len(h) |-> PyStr(<<"k", " ">>)]) >>) : h \in HeaderRows(c)}
    \cup {DataFrame(<< <<"N", "a", "m", "e">>, <<"E", "m", "a", "i", "l">> >>, rows) :
            rows \in SeqsUpTo({<<n, e>> : n \in AddressCells, e \in AddressCells}, r)}
    \cup {DataFrame(<< <<" ", "e", "m", "a", "i", "l", " ">>, <<"N", "A", "M", "E">>, <<"I", "s", "C", "C", "D", "e", "f", "a", "u", "l", "t">> >>, rows) :
            rows \in SeqsUpTo({<<e, n, f>> : e \in AddressCells, n \in AddressCells,
                                             f \in FlagCells}, r)}

InitRoster ==
    /\ pc = "roster_norm"
    /\ arg \in {[df |-> t, first |-> NoneDf] : t \in RosterTables(MaxCols, MaxRows)}
    /\ ret = DfRaised("")
    /\ roster_df = roster_empty
    /\ shown = <<>>
    /\ session = Unused
    /\ remote = Unused

CallRosterNorm ==
    /\ pc = "roster_norm"
    /\ ret' = roster_norm(arg.df)
    /\ pc' = "roster_norm_done"
    /\ UNCHANGED <<arg, roster_df, shown>>
    /\ UNCHANGED <<session, remote>>

\* the normalized roster is written out (the download button, line 889) and
\* the file is loaded again (the upload, line 870)
CallRosterReload ==
    /\ pc = "roster_norm_done"
    /\ ret.raised = ""
    /\ arg' = [df |-> arg.df, first |-> ret.df]
    /\ ret' = roster_load_bytes(roster_to_xlsx(ret.df))
    /\ pc' = "roster_reload_done"
    /\ UNCHANGED <<roster_df, shown>>
    /\ UNCHANGED <<session, remote>>

NextRoster == CallRosterNorm \/ CallRosterReload

SpecRoster == InitRoster /\ [][NextRoster]_vars

\* the table has a column for the required name after trimming the header
\* and ignoring letter case
HasColumn(df, name) ==
    \E i \in 1..Len(df.columns) : Lower(Strip(df.columns[i])) = Lower(name)

\* C4: roster_norm raises the column-validation error for every table that
\* lacks the Name or the Email column under case-insensitive, white-space
\* tolerant header matching, and does not fail for a table that has both.
C4_ColumnValidation ==
    pc = "roster_norm_done" =>
        IF HasColumn(arg.df, REQ_COLS[1]) /\ HasColumn(arg.df, REQ_COLS[2])
        THEN ret.raised = ""
        ELSE ret.raised = "ValueError: required column missing"

\* the position of the column roster_norm reads the name from: the last
\* column whose trimmed, lower-cased header is the name
SourceOf(df, name) ==
    Last({i \in 1..Len(df.columns) : Lower(Strip(df.columns[i])) = Lower(name)})

\* the trimmed text of a cell, a missing cell being empty
Trimmed(cell) == IF cell.t \in {"nan", "none"} THEN <<>> ELSE Strip(StrOf(cell))

\* C6: roster_norm drops exactly the rows whose Name and Email are both
\* empty after trimming; every other row is in the output, rows with only a
\* Name or only an Email too, in the order of the input.
C6_DropsEmptyRows ==
    (pc = "roster_norm_done" /\ ret.raised = "") =>
        LET in == arg.df
            nm(i) == Trimmed(in.rows[i][SourceOf(in, REQ_COLS[1])])
            em(i) == Trimmed(in.rows[i][SourceOf(in, REQ_COLS[2])])
            kept == Pick([i \in 1..Len(in.rows) |-> i],
                         {i \in 1..Len(in.rows) : ~(nm(i) = <<>> /\ em(i) = <<>>)})
        IN /\ Len(ret.df.rows) = Len(kept)
           /\ \A k \in 1..Len(kept) :
                /\ ret.df.rows[k][1] = PyStr(nm(kept[k]))
                /\ ret.df.rows[k][2] = PyStr(em(kept[k]))

\* a row with only a Name is kept, a row with neither is dropped
C6_Witness ==
    /\ pc = "roster_norm_done"
    /\ ret.raised = ""
    /\ Len(arg.df.rows) = 2
    /\ Len(ret.df.rows) = 1
    /\ ret.df.rows[1][1] = PyStr(<<"k">>)
    /\ ret.df.rows[1][2] = PyStr(<<>>)

\* C7: roster_norm applied to its own output, re-read from the serialized
\* roster, yields the same records, columns and column order.
C7_Idempotent ==
    pc = "roster_reload_done" => ret = DfReturned(arg.first)

-----------------------------------------------------------------------------
(* ext_norm, build_recipients: the recipients of a mailing. *)

ExtCols == << <<"N", "a", "m", "e">>, <<"E", "m", "a", "i", "l">> >>

ext_empty == DataFrame(ExtCols, <<>>)

\* r.get(label, ""): the cell of a row under the column labelled label
Cell(df, row, label) ==
    LET at == IndicesOf(df.columns, label)
    IN IF at = {} THEN PyStr(<<>>) ELSE row[First(at)]

ext_norm(df) ==
    IF df.none THEN ext_empty
    ELSE LET rows == Seq1([i \in 1..Len(df.rows) |->
                            Seq1([j \in 1..Len(ExtCols) |->
                                    TextCell(Cell(df, df.rows[i], ExtCols[j]))])])
         IN DataFrame(ExtCols, SelectSeq(rows, LAMBDA r : ~BothEmpty(r)))

\* lines 478-491: the recipient of one roster row
RosterRecipient(df, r) ==
    LET email == Strip(StrOf(Cell(df, r, <<"E", "m", "a", "i", "l">>)))
        name == Strip(StrOf(Cell(df, r, <<"N", "a", "m", "e">>)))
    IN [name |-> IF name # <<>> THEN name ELSE email,
        email |-> email,
        team |-> Strip(StrOf(Cell(df, r, <<"T", "e", "a", "m">>))),
        title |-> Strip(StrOf(Cell(df, r, <<"T", "i", "t", "l", "e">>))),
        manager |-> Strip(StrOf(Cell(df, r, <<"M", "a", "n", "a", "g", "e", "r", "E", "m", "a", "i", "l">>))),
        cc_default |-> b(Cell(df, r, IsCCDefault))]

\* lines 493-497: the recipient of one external row
ExtRecipient(df, r) ==
    LET email == Strip(StrOf(Cell(df, r, <<"E", "m", "a", "i", "l">>)))
        name == Strip(StrOf(Cell(df, r, <<"N", "a", "m", "e">>)))
    IN [name |-> IF name # <<>> THEN name ELSE email,
        email |-> email,
        team |-> <<>>,
        title |-> <<>>,
        manager |-> <<>>,
        cc_default |-> FALSE]

\* lines 499-505: the first record of each lower-cased address
RECURSIVE FirstByEmail(_, _, _)
FirstByEmail(rec, out, seen) ==
    IF rec = <<>> THEN out
    ELSE LET k == Lower(Head(rec).email)
         IN IF k \in seen THEN FirstByEmail(Tail(rec), out, seen)
            ELSE FirstByEmail(Tail(rec), Append(out, Head(rec)), seen \cup {k})

\* the recipients of the rows of a table that have an address
Recipients(df, rows, Of(_, _)) ==
    SelectSeq(Seq1([i \in 1..Len(rows) |-> Of(df, rows[i])]), LAMBDA r : r.email # <<>>)

\* build_recipients taking the whole roster when nothing is selected
build_recipients_all_when_empty(roster, names, ext_df) ==
    LET sel == {names[i] : i \in 1..Len(names)}
        rows == IF sel # {}
                THEN SelectSeq(roster.rows, LAMBDA r : Cell(roster, r, <<"N", "a", "m", "e">>).s \in sel)
                ELSE roster.rows
        ext_rows == ext_norm(ext_df)
    IN FirstByEmail(Recipients(roster, rows, RosterRecipient)
                        \o Recipients(ext_rows, ext_rows.rows, ExtRecipient), <<>>, {})

\* build_recipients with the external rows collected before the roster rows
build_recipients_ext_first(roster, names, ext_df) ==
    LET sel == {names[i] : i \in 1..Len(names)}
        rows == IF sel # {}
                THEN SelectSeq(roster.rows, LAMBDA r : Cell(roster, r, <<"N", "a", "m", "e">>).s \in sel)
                ELSE <<>>
        ext_rows == ext_norm(ext_df)
    IN FirstByEmail(Recipients(ext_rows, ext_rows.rows, ExtRecipient)
                        \o Recipients(roster, rows, RosterRecipient), <<>>, {})

build_recipients(roster, names, ext_df) ==
    LET sel == {names[i] : i \in 1..Len(names)}
        rows == IF sel # {}
                THEN SelectSeq(roster.rows, LAMBDA r : Cell(roster, r, <<"N", "a", "m", "e">>).s \in sel)
                ELSE <<>>
        ext_rows == ext_norm(ext_df)
    IN FirstByEmail(Recipients(roster, rows, RosterRecipient)
                        \o Recipients(ext_rows, ext_rows.rows, ExtRecipient), <<>>, {})

\* a row of the normalized roster
RosterRow(name, email, team, title, flag, manager) ==
    << PyStr(name), PyStr(email), PyStr(<<>>), PyStr(title), PyStr(team), PyStr(<<>>),
       PyStr(<<>>), PyStr(<<>>), PyBool(flag), PyStr(manager) >>

RosterRowChoices ==
    {RosterRow(n, e, <<>>, <<>>, FALSE, <<>>) : n \in {<<"K">>, <<"L">>}, e \in {<<>>, <<"k">>, <<"K">>}}
    \cup {RosterRow(n, e, <<"T">>, <<"D">>, TRUE, <<"m">>) : n \in {<<"K">>, <<"L">>}, e \in {<<>>, <<"k">>, <<"K">>}}

\* the rows of the external grid as the editor returns them
ExtRowChoices ==
    {<<n, e>> : n \in {PyNaN, PyStr(<<"K">>)}, e \in {PyNaN, PyStr(<<"k", " ">>), PyStr(<<"K">>)}}

\* roster_df is a normalized roster, names the list of the multiselect,
\* ext_df the session's external table (line 921)
InitRecipients ==
    /\ pc = "build_recipients"
    /\ arg \in [roster_df : {DataFrame(AllCols, rows) :
                                rows \in SeqsUpTo(RosterRowChoices, MaxRosterRows)},
                names : {<<>>, << <<"K">> >>, << <<"L">> >>, << <<"K">>, <<"L">> >>, << <<"M">> >>},
                ext_df : {ext_norm(DataFrame(ExtCols, rows)) :
                                rows \in SeqsUpTo(ExtRowChoices, MaxExtRows)}]
    /\ ret = <<>>
    /\ roster_df = roster_empty
    /\ shown = <<>>
    /\ session = Unused
    /\ remote = Unused

CallRecipients ==
    /\ pc = "build_recipients"
    /\ ret' = build_recipients(arg.roster_df, arg.names, arg.ext_df)
    /\ pc' = "build_recipients_done"
    /\ UNCHANGED <<arg, roster_df, shown>>
    /\ UNCHANGED <<session, remote>>

NextRecipients == CallRecipients

SpecRecipients == InitRecipients /\ [][NextRecipients]_vars

\* the rows of the roster whose Name is selected and whose Email is not empty
SelectedRows(a) ==
    {i \in 1..Len(a.roster_df.rows) :
        /\ \E n \in 1..Len(a.names) : a.roster_df.rows[i][1].s = a.names[n]
        /\ a.roster_df.rows[i][2].s # <<>>}

\* the rows of the external table whose Email is not empty
MailableExtRows(a) == {i \in 1..Len(a.ext_df.rows) : a.ext_df.rows[i][2].s # <<>>}

\* C1: no two recipients have the same lower-cased address, and when a
\* selected roster row and an external row share an address up to case, the
\* one recipient of that address carries the email, team, title, manager and
\* cc_default of the roster row (of the first such roster row).
C1_DedupRosterFirst ==
    pc = "build_recipients_done" =>
        /\ \A i, j \in 1..Len(ret) : i # j => Lower(ret[i].email) # Lower(ret[j].email)
        /\ \A i \in SelectedRows(arg), e \in MailableExtRows(arg) :
              LET row == arg.roster_df.rows[i]
                  key == Lower(row[2].s)
                  first == First({h \in SelectedRows(arg) :
                                    Lower(arg.roster_df.rows[h][2].s) = key})
                  won == arg.roster_df.rows[first]
              IN Lower(arg.ext_df.rows[e][2].s) = key =>
                    /\ Cardinality({k \in 1..Len(ret) : Lower(ret[k].email) = key}) = 1
                    /\ \A k \in 1..Len(ret) :
                          Lower(ret[k].email) = key =>
                              /\ ret[k].email = won[2].s
                              /\ ret[k].title = won[4].s
                              /\ ret[k].team = won[5].s
                              /\ ret[k].cc_default = won[9].v
                              /\ ret[k].manager = won[10].s

\* the example of the spec: a roster row and an external row whose address
\* differs in case only; the recipient has the roster's address and manager
C1_Witness ==
    /\ pc = "build_recipients_done"
    /\ arg.names = << <<"K">> >>
    /\ arg.roster_df.rows = << RosterRow(<<"K">>, <<"k">>, <<"T">>, <<"D">>, TRUE, <<"m">>) >>
    /\ arg.ext_df.rows = << <<PyStr(<<"K">>), PyStr(<<"K">>)>> >>
    /\ Len(ret) = 1
    /\ ret[1].email = <<"k">>
    /\ ret[1].manager = <<"m">>

\* C2: with no name selected no roster row is included: the recipients are
\* the external records that have an address, one per lower-cased address,
\* and there are none when the external table is empty.
C2_NothingSelected ==
    (pc = "build_recipients_done" /\ arg.names = <<>>) =>
        /\ \A k \in 1..Len(ret) :
              /\ ret[k].team = <<>> /\ ret[k].title = <<>> /\ ret[k].manager = <<>>
              /\ ~ret[k].cc_default
              /\ \E e \in MailableExtRows(arg) :
                    /\ ret[k].email = arg.ext_df.rows[e][2].s
                    /\ ret[k].name = (IF arg.ext_df.rows[e][1].s # <<>>
                                      THEN arg.ext_df.rows[e][1].s
                                      ELSE arg.ext_df.rows[e][2].s)
        /\ \A e \in MailableExtRows(arg) :
              \E k \in 1..Len(ret) : Lower(ret[k].email) = Lower(arg.ext_df.rows[e][2].s)
        /\ Len(ret) <= Cardinality(MailableExtRows(arg))
        /\ arg.ext_df.rows = <<>> => ret = <<>>

\* a roster with mailable rows, nothing selected, no external row: nobody
C2_Witness ==
    /\ pc = "build_recipients_done"
    /\ arg.names = <<>>
    /\ arg.roster_df.rows = << RosterRow(<<"K">>, <<"k">>, <<"T">>, <<"D">>, TRUE, <<"m">>) >>
    /\ arg.ext_df.rows = <<>>
    /\ ret = <<>>

-----------------------------------------------------------------------------
(* The roster part of the page script (lines 866-885).  Every interaction   *)
(* runs the script from the top: the upload block, then the grid block.     *)

NoFile == [kind |-> "none", sheet |-> "", columns |-> <<>>, rows |-> <<>>]

\* lines 868-873 with the roster emptied when the load fails, as
\* roster_load_default does
roster_after_upload_reset(current, r_up) ==
    IF r_up = NoFile THEN current
    ELSE LET res == roster_load_bytes(r_up)
         IN IF res.raised = "" THEN res.df ELSE roster_empty

\* lines 868-873: st.session_state["roster_df"] after the upload block
roster_after_upload(current, r_up) ==
    IF r_up = NoFile THEN current
    ELSE LET res == roster_load_bytes(r_up)
         IN IF res.raised = "" THEN res.df ELSE current

\* lines 871, 873: what the upload block shows
upload_message(r_up) ==
    IF r_up = NoFile THEN <<>>
    ELSE IF roster_load_bytes(r_up).raised = "" THEN <<"roster uploaded">>
    ELSE <<"roster load failed">>

\* lines 875-881: what st.data_editor returns: the roster it was given, with
\* the user's change to the grid (a cell typed over, a row added with its
\* cells still None, a row deleted); the columns are those of the roster
EditedGrids(df) ==
    {[kind |-> "none", df |-> df]}
    \cup {[kind |-> "cell",
           df |-> DataFrame(df.columns, [df.rows EXCEPT ![i] = [@ EXCEPT ![c] = x]])] :
            i \in 1..Len(df.rows), c \in {1, 2}, x \in {PyStr(<<"k">>), PyStr(<<" ", "L">>), PyStr(<<>>)}}
    \cup {[kind |-> "flag",
           df |-> DataFrame(df.columns, [df.rows EXCEPT ![i] = [@ EXCEPT ![9] = PyBool(~@.v)]])] :
            i \in 1..Len(df.rows)}
    \cup (IF Len(df.rows) < MaxGridRows
          THEN {[kind |-> "add",
                 df |-> DataFrame(df.columns,
                          Append(df.rows, [RosterRow(<<>>, <<>>, <<>>, <<>>, FALSE, <<>>)
                                              EXCEPT ![1] = x, ![3] = PyNone, ![9] = f]))] :
                    x \in {PyNone, PyStr(<<"L", " ">>)}, f \in {PyNone, PyBool(TRUE)}}
          ELSE {})
    \cup {[kind |-> "delete",
           df |-> DataFrame(df.columns,
                            SubSeq(df.rows, 1, i - 1) \o SubSeq(df.rows, i + 1, Len(df.rows)))] :
            i \in 1..Len(df.rows)}

\* the files a user can put in the uploader
Uploads ==
    { Xlsx(ROSTER_SHEET, << <<"N", "a", "m", "e">>, <<" ", "e", "m", "a", "i", "l">> >>, << <<PyStr(<<"K">>), PyStr(<<"k", " ">>)>> >>),
      Xlsx(ROSTER_SHEET, << <<"N", "a", "m", "e">>, <<"E", "m", "a", "i", "l">>, <<"I", "s", "C", "C", "D", "e", "f", "a", "u", "l", "t">> >>,
           << <<PyStr(<<"L">>), PyStr(<<>>), PyStr(<<"y", "e", "s">>)>>, <<PyStr(<<>>), PyStr(<<>>), PyNaN>> >>),
      Xlsx(ROSTER_SHEET, << <<"N", "a", "m", "e">>, <<"D", "e", "p", "t">> >>, << <<PyStr(<<"K">>), PyStr(<<"k">>)>> >>),
      Xlsx(ROSTER_SHEET, << <<"E", "-", "m", "a", "i", "l">> >>, <<>>),
      Xlsx("Sheet1", << <<"N", "a", "m", "e">>, <<"E", "m", "a", "i", "l">> >>, << <<PyStr(<<"K">>), PyStr(<<"k">>)>> >>),
      Garbage }

\* roster_load_default: no default file, or a default file with one person
DefaultRosters ==
    { roster_empty, DataFrame(AllCols, << RosterRow(<<"K">>, <<"k">>, <<"T">>, <<"D">>, TRUE, <<"m">>) >>) }

InitPage ==
    /\ pc = "idle"
    /\ roster_df \in DefaultRosters
    /\ arg = [r_up |-> NoFile, before |-> roster_df, at_editor |-> roster_df, edit |-> "none"]
    /\ ret = DfRaised("")
    /\ shown = <<>>
    /\ session = Unused
    /\ remote = Unused

\* the user changes a widget; the script starts over
Rerun ==
    /\ pc = "idle"
    /\ \E f \in Uploads \cup {NoFile} :
          arg' = [r_up |-> f, before |-> roster_df, at_editor |-> roster_df, edit |-> "none"]
    /\ shown' = <<>>
    /\ pc' = "roster_upload"
    /\ UNCHANGED <<ret, roster_df>>
    /\ UNCHANGED <<session, remote>>

\* lines 867-873
RosterUploadBlock ==
    /\ pc = "roster_upload"
    /\ roster_df' = roster_after_upload(roster_df, arg.r_up)
    /\ shown' = shown \o upload_message(arg.r_up)
    /\ pc' = "roster_editor"
    /\ UNCHANGED <<arg, ret>>
    /\ UNCHANGED <<session, remote>>

\* lines 875-885
RosterEditorBlock ==
    /\ pc = "roster_editor"
    /\ \E edited \in EditedGrids(roster_df) :
          \E res \in {roster_norm(edited.df)} :
             /\ arg' = [arg EXCEPT !.at_editor = roster_df, !.edit = edited.kind]
             /\ ret' = res
             /\ roster_df' = IF res.raised = "" THEN res.df ELSE roster_df
             /\ shown' = IF res.raised = "" THEN shown
                         ELSE Append(shown, "roster format error")
    /\ pc' = "idle"
    /\ UNCHANGED <<session, remote>>

NextPage == Rerun \/ RosterUploadBlock \/ RosterEditorBlock

SpecPage == InitPage /\ [][NextPage]_vars

Showed(msg) == \E i \in 1..Len(shown) : shown[i] = msg

\* C5: when the roster upload fails (a required column or the Users sheet is
\* missing) or the grid's table fails validation, the error is shown and
\* roster_df is what it was before: after a failed upload the roster is the
\* one the run started with, and stays so to the end of the run unless the
\* user changed the grid; after a failed grid validation it is the one the
\* grid was given.
C5_FailedUploadKeepsRoster ==
    /\ (pc # "roster_upload" /\ arg.r_up # NoFile /\ roster_load_bytes(arg.r_up).raised # "") =>
          /\ Showed("roster load failed")
          /\ pc = "roster_editor" => roster_df = arg.before
          /\ (pc = "idle" /\ arg.edit = "none") => roster_df = arg.before
    /\ (pc = "idle" /\ Showed("roster format error")) => roster_df = arg.at_editor

\* an upload without the Email column, into a session that has a roster
C5_Witness ==
    /\ pc = "idle"
    /\ arg.r_up = Xlsx(ROSTER_SHEET, << <<"N", "a", "m", "e">>, <<"D", "e", "p", "t">> >>, << <<PyStr(<<"K">>), PyStr(<<"k">>)>> >>)
    /\ Showed("roster load failed")
    /\ arg.edit = "none"
    /\ Len(arg.before.rows) = 1
    /\ roster_df = arg.before

-----------------------------------------------------------------------------
(* transcribe: the diarized transcript. *)

MaxWords == 4

\* the label "[<speaker> N]: " of a line; H and J stand for the two Hangul
\* syllables of the word for speaker
SpeakerLabel(sp) == <<"[", "H", "J", " ">> \o StrOf(sp) \o <<"]", ":", " ">>

SpeakerLine(sp, words) == SpeakerLabel(sp) \o Join(words, " ")

\* the loop without the flush that follows it (lines 202-203 left out)
RECURSIVE transcribe_loop_no_last_flush(_, _, _, _)
transcribe_loop_no_last_flush(words, lines, cur_sp, cur_words) ==
    IF words = <<>> THEN lines
    ELSE LET w == Head(words)
             sp == w.speaker_tag
         IN IF sp # cur_sp
            THEN transcribe_loop_no_last_flush(Tail(words),
                     IF cur_sp # PyNone /\ cur_words # <<>>
                     THEN Append(lines, SpeakerLine(cur_sp, cur_words)) ELSE lines,
                     sp, <<w.word>>)
            ELSE transcribe_loop_no_last_flush(Tail(words), lines, cur_sp,
                                               Append(cur_words, w.word))

\* lines 194-203: the words that remain, the lines so far, the speaker and
\* the words of the line being collected
RECURSIVE transcribe_loop(_, _, _, _)
transcribe_loop(words, lines, cur_sp, cur_words) ==
    IF words = <<>>
    THEN (IF cur_words # <<>> THEN Append(lines, SpeakerLine(cur_sp, cur_words)) ELSE lines)
    ELSE LET w == Head(words)
             sp == w.speaker_tag
         IN IF sp # cur_sp
            THEN transcribe_loop(Tail(words),
                     IF cur_sp # PyNone /\ cur_words # <<>>
                     THEN Append(lines, SpeakerLine(cur_sp, cur_words)) ELSE lines,
                     sp, <<w.word>>)
            ELSE transcribe_loop(Tail(words), lines, cur_sp, Append(cur_words, w.word))

\* lines 185-204, from the response of the recognition
transcribe(res) ==
    IF res.results = <<>> THEN <<>>
    ELSE LET alt == res.results[Len(res.results)].alternatives
         IN IF alt = <<>> THEN <<>>
            ELSE IF alt[1].words = <<>> THEN Strip(alt[1].transcript)
            ELSE Strip(Join(transcribe_loop(alt[1].words, <<>>, PyNone, <<>>), "\n"))

\* a recognized word: a token without white space, and the speaker's number
WordInfos == [word : {<<"a">>, <<"b", "c">>}, speaker_tag : {PyInt(0), PyInt(1), PyInt(12)}]

\* an earlier result of the response, which line 187 passes over
EarlierResult ==
    [alternatives |-> << [transcript |-> <<"z">>,
                          words |-> << [word |-> <<"z">>, speaker_tag |-> PyInt(1)] >>] >>]

RecognizeResponses(n) ==
    { [results |-> <<>>], [results |-> << [alternatives |-> <<>>] >>] }
    \cup { [results |-> << [alternatives |-> << [transcript |-> t, words |-> <<>>] >>] >>] :
             t \in {<<>>, <<" ", "a", " ">>} }
    \cup { [results |-> pre \o << [alternatives |-> << [transcript |-> <<"a">>, words |-> ws] >>] >>] :
             pre \in {<<>>, <<EarlierResult>>}, ws \in SeqsUpTo(WordInfos, n) \ {<<>>} }

InitTranscribe ==
    /\ pc = "transcribe"
    /\ arg \in {[res |-> r] : r \in RecognizeResponses(MaxWords)}
    /\ ret = <<>>
    /\ roster_df = <<>>
    /\ shown = <<>>
    /\ session = Unused
    /\ remote = Unused

CallTranscribe ==
    /\ pc = "transcribe"
    /\ ret' = transcribe(arg.res)
    /\ pc' = "transcribe_done"
    /\ UNCHANGED <<arg, roster_df, shown, session, remote>>

NextTranscribe == CallTranscribe

SpecTranscribe == InitTranscribe /\ [][NextTranscribe]_vars

\* the number a decimal numeral stands for
RECURSIVE NumberOf(_)
NumberOf(digits) ==
    IF digits = <<>> THEN 0
    ELSE 10 * NumberOf(SubSeq(digits, 1, Len(digits) - 1))
         + (CHOOSE d \in 0..9 : Digit(d) = digits[Len(digits)])

\* a line read back: the speaker between "[HJ " and "]: ", and the words
\* after it, separated by single spaces
LineSpeaker(line) == PyInt(NumberOf(Split(SubSeq(line, 5, Len(line)), "]")[1]))

LineWords(line) ==
    LET sp == LineSpeaker(line)
    IN Split(SubSeq(line, Len(SpeakerLabel(sp)) + 1, Len(line)), " ")

WellFormedLine(line) ==
    /\ StartsWith(line, <<"[", "H", "J", " ">>)
    /\ \E i \in 5..Len(line) : line[i] = "]"
    /\ \A c \in {Split(SubSeq(line, 5, Len(line)), "]")[1][i] :
                    i \in 1..Len(Split(SubSeq(line, 5, Len(line)), "]")[1])} :
           c \in {Digit(d) : d \in 0..9}
    /\ Split(SubSeq(line, 5, Len(line)), "]")[1] # <<>>
    /\ StartsWith(line, SpeakerLabel(LineSpeaker(line)))

\* the words of the lines, each with its line's speaker, in order
RECURSIVE WordsOfLines(_)
WordsOfLines(lines) ==
    IF lines = <<>> THEN <<>>
    ELSE LET ws == LineWords(lines[1])
         IN [i \in 1..Len(ws) |-> [word |-> ws[i], speaker_tag |-> LineSpeaker(lines[1])]]
            \o WordsOfLines(Tail(lines))

SpokenWords == arg.res.results[Len(arg.res.results)].alternatives[1].words

HasWords ==
    /\ arg.res.results # <<>>
    /\ arg.res.results[Len(arg.res.results)].alternatives # <<>>
    /\ SpokenWords # <<>>

\* C16: the transcript of a response with words is lines "[<speaker> N]: <words>":
\* every line is well formed, the words of the lines, each taken with its
\* line's speaker, are the recognized words with their speakers in order
\* (none lost, duplicated or reordered, every line a run of one speaker), and
\* adjacent lines have different speakers (so every run is maximal).
C16_SpeakerRuns ==
    (pc = "transcribe_done" /\ HasWords) =>
        LET lines == Split(ret, "\n")
        IN /\ \A i \in 1..Len(lines) : WellFormedLine(lines[i])
           /\ WordsOfLines(lines) = SpokenWords
           /\ \A i \in 1..(Len(lines) - 1) : LineSpeaker(lines[i]) # LineSpeaker(lines[i + 1])

\* speaker 1 says two words, speaker 12 one, speaker 1 one more
C16_Witness ==
    /\ pc = "transcribe_done"
    /\ HasWords
    /\ SpokenWords = << [word |-> <<"a">>, speaker_tag |-> PyInt(1)],
                        [word |-> <<"b", "c">>, speaker_tag |-> PyInt(1)],
                        [word |-> <<"a">>, speaker_tag |-> PyInt(12)],
                        [word |-> <<"a">>, speaker_tag |-> PyInt(1)] >>
    /\ ret = <<"[", "H", "J", " ", "1", "]", ":", " ", "a", " ", "b", "c", "\n",
               "[", "H", "J", " ", "1", "2", "]", ":", " ", "a", "\n",
               "[", "H", "J", " ", "1", "]", ":", " ", "a">>

-----------------------------------------------------------------------------
(* The session and the remote services. *)

MaxSaves == 3
MaxDriveFiles == 2

\* a call made to a remote service: what was called, for which recipient or
\* preview (0 when the call is not made per recipient), and whether it
\* succeeded
RemoteCall(kind, target, ok) == [kind |-> kind, target |-> target, ok |-> ok]

\* the drive's files, the document store, the mail delivered, and the remote
\* calls of the user action in progress (or the last one)
NoRemote == [files |-> <<>>, docs |-> <<>>, outbox |-> <<>>, calls |-> <<>>]

-----------------------------------------------------------------------------
(* roster_save_drive: the roster file on the drive. *)

\* the roster's file name (a Hangul word and ".xlsx" in the source)
ROSTER_FILE == "roster.xlsx"

DriveFile(id, name, parent, trashed, content) ==
    [id |-> id, name |-> name, parents |-> {parent}, trashed |-> trashed, content |-> content]

Saved(files, calls, fid) == [files |-> files, calls |-> calls, raised |-> "", fid |-> fid]

SaveRaised(files, calls, msg) == [files |-> files, calls |-> calls, raised |-> msg, fid |-> 0]

\* roster_save_drive that never looks the file up
roster_save_drive_always_creates(files, calls, df, cfg, outcome) ==
    LET folder == IF cfg.roster_folder # "" THEN cfg.roster_folder ELSE cfg.shared_drive
        fid == Len(files) + 1
    IN IF outcome = "write fails"
       THEN SaveRaised(files, Append(calls, RemoteCall("drive.files.create", 0, FALSE)), "HttpError")
       ELSE Saved(Append(files, DriveFile(fid, ROSTER_FILE, folder, FALSE, roster_to_xlsx(df))),
                  Append(calls, RemoteCall("drive.files.create", 0, TRUE)), fid)

\* files: the drive before the call; outcome: which remote call fails, if
\* any.  The result holds the drive after the call.
roster_save_drive(files, calls, df, cfg, outcome) ==
    LET folder == IF cfg.roster_folder # "" THEN cfg.roster_folder ELSE cfg.shared_drive
        found == {i \in 1..Len(files) :
                     /\ files[i].name = ROSTER_FILE
                     /\ ~files[i].trashed
                     /\ (folder # "" => folder \in files[i].parents)}
        listed == Append(calls, RemoteCall("drive.files.list", 0, outcome # "list fails"))
        media == roster_to_xlsx(df)
    IN IF outcome = "list fails" THEN SaveRaised(files, listed, "HttpError")
       ELSE IF found # {}
       THEN LET i == First(found)
            IN IF outcome = "write fails"
               THEN SaveRaised(files, Append(listed, RemoteCall("drive.files.update", 0, FALSE)),
                               "HttpError")
               ELSE Saved([files EXCEPT ![i].content = media],
                          Append(listed, RemoteCall("drive.files.update", 0, TRUE)), files[i].id)
       ELSE LET fid == Len(files) + 1
            IN IF outcome = "write fails"
               THEN SaveRaised(files, Append(listed, RemoteCall("drive.files.create", 0, FALSE)),
                               "HttpError")
               ELSE Saved(Append(files, DriveFile(fid, ROSTER_FILE,
                                                  IF folder # "" THEN folder ELSE "root",
                                                  FALSE, media)),
                          Append(listed, RemoteCall("drive.files.create", 0, TRUE)), fid)

\* load_settings: the shared drive is required, the roster folder optional
DriveSettings == {[roster_folder |-> f, shared_drive |-> "S"] : f \in {"", "F"}}

\* what the drive can hold before the session's first save
DriveFileChoices ==
    {[name |-> n, parent |-> p, trashed |-> t] :
        n \in {ROSTER_FILE, "notes.txt"}, p \in {"S", "F"}, t \in BOOLEAN}

Drives(n) ==
    {[i \in 1..Len(fs) |-> DriveFile(i, fs[i].name, fs[i].parent, fs[i].trashed, Garbage)] :
        fs \in SeqsUpTo(DriveFileChoices, n)}

SaveOutcomes == {"ok", "list fails", "write fails"}

InitDrive ==
    /\ pc = "drive_idle"
    /\ roster_df \in DefaultRosters
    /\ \E d \in Drives(MaxDriveFiles), c \in DriveSettings :
          /\ remote = [NoRemote EXCEPT !.files = d]
          /\ arg = [cfg |-> c, action |-> "none", first |-> d, before |-> d, saves |-> 0]
    /\ ret = SaveRaised(<<>>, <<>>, "")
    /\ shown = <<>>
    /\ session = Unused

\* lines 894-898: the save button
RosterSaveButton ==
    /\ pc = "drive_idle"
    /\ arg.saves < MaxSaves
    /\ \E outcome \in SaveOutcomes :
         \E res \in {roster_save_drive(remote.files, <<>>, roster_df, arg.cfg, outcome)} :
            /\ remote' = [remote EXCEPT !.files = res.files, !.calls = res.calls]
            /\ ret' = res
            /\ shown' = <<IF res.raised = "" THEN "saved" ELSE "drive save failed">>
    /\ arg' = [arg EXCEPT !.action = "btn_roster_drive", !.before = remote.files,
                          !.saves = arg.saves + 1]
    /\ UNCHANGED <<pc, roster_df, session>>

NextDrive == RosterSaveButton

SpecDrive == InitDrive /\ [][NextDrive]_vars

TargetFolder(cfg) == IF cfg.roster_folder # "" THEN cfg.roster_folder ELSE cfg.shared_drive

\* the files with the roster's name in the folder that are not in the trash
RosterNamed(files, folder) ==
    {i \in 1..Len(files) :
        files[i].name = ROSTER_FILE /\ folder \in files[i].parents /\ ~files[i].trashed}

Max(a, c) == IF a >= c THEN a ELSE c

\* C18: a successful save into a folder that holds a roster-named file out of
\* the trash writes the roster into such a file and creates none; otherwise
\* it creates exactly one roster-named file in the folder; every other file
\* is left as it was.  So the number of roster-named files in the folder is
\* never more than max(1, their number before the first save).
C18_CreateOrUpdate ==
    LET folder == TargetFolder(arg.cfg)
        old == RosterNamed(arg.before, folder)
        now == remote.files
    IN /\ (arg.saves > 0 /\ ret.raised = "" /\ old # {}) =>
            /\ Len(now) = Len(arg.before)
            /\ \E i \in old : /\ now[i] = [arg.before[i] EXCEPT !.content = roster_to_xlsx(roster_df)]
                              /\ \A j \in 1..Len(now) : j # i => now[j] = arg.before[j]
       /\ (arg.saves > 0 /\ ret.raised = "" /\ old = {}) =>
            /\ Len(now) = Len(arg.before) + 1
            /\ SubSeq(now, 1, Len(arg.before)) = arg.before
            /\ RosterNamed(now, folder) = {Len(now)}
            /\ now[Len(now)].content = roster_to_xlsx(roster_df)
       /\ (arg.saves > 0 /\ ret.raised # "") => now = arg.before
       /\ Cardinality(RosterNamed(now, folder))
             <= Max(1, Cardinality(RosterNamed(arg.first, folder)))

\* three saves into a folder whose only roster-named file was in the trash:
\* a failed one, one that created the file and one that updated it
C18_Witness ==
    /\ arg.saves = 3
    /\ ret.raised = ""
    /\ arg.cfg.roster_folder = "F"
    /\ Len(arg.first) = 1 /\ arg.first[1].name = ROSTER_FILE /\ arg.first[1].trashed
    /\ arg.first[1].parents = {"F"}
    /\ Len(arg.before) = 2
    /\ Len(remote.files) = 2
    /\ remote.calls = <<RemoteCall("drive.files.list", 0, TRUE), RemoteCall("drive.files.update", 0, TRUE)>>

-----------------------------------------------------------------------------
(* run_gemini, save_doc, process_audio and the buttons of the first two    *)
(* tabs.                                                                   *)

MaxRuns == 2

\* the URL save_doc returns for the document with this id; id 0: no URL ("")
DocUrl(id) == [doc_id |-> id]

NoUrl == DocUrl(0)

\* lines 662-679 and 686 (the meta_ keys are read through FullMeta), and the
\* keys of the widgets the script reads back: they hold nothing before the
\* widgets are first drawn
init_state ==
    [selected_names |-> <<>>, last_transcript |-> <<>>, last_summary |-> <<>>,
     last_doc_url |-> NoUrl, prompt_out |-> <<>>, prompt_kind |-> "",
     email_previews |-> <<>>, sender_backend |-> "", ext_df |-> ext_empty,
     email_backend |-> "", sender_name |-> <<>>, sender_email |-> <<>>]

Generated(calls, text) == [calls |-> calls, raised |-> "", text |-> text]

GenerateRaised(calls, error) == [calls |-> calls, raised |-> error, text |-> <<>>]

\* run_gemini that asks once more when the first call raised
run_gemini_asks_again(calls, target, reply) ==
    LET issued == Append(calls, RemoteCall("generate_content", target, ~reply.fails))
        text == Strip(reply.text)
    IN IF reply.fails
       THEN GenerateRaised(Append(issued, RemoteCall("generate_content", target, FALSE)), "remote")
       ELSE IF text = <<>> THEN GenerateRaised(issued, "RuntimeError: empty response")
       ELSE Generated(issued, text)

\* reply: what the generation service does with the call (it fails, or it
\* answers with a text, "" standing for a missing text too); target: the
\* recipient the prompt is for, 0 for none
run_gemini(calls, target, reply) ==
    LET issued == Append(calls, RemoteCall("generate_content", target, ~reply.fails))
        text == Strip(reply.text)
    IN IF reply.fails THEN GenerateRaised(issued, "remote")
       ELSE IF text = <<>> THEN GenerateRaised(issued, "RuntimeError: empty response")
       ELSE Generated(issued, text)

GenerateReplies(texts) ==
    {[fails |-> TRUE, text |-> <<>>]} \cup {[fails |-> FALSE, text |-> t] : t \in texts}

DocSaved(docs, calls, id) == [docs |-> docs, calls |-> calls, raised |-> "", url |-> DocUrl(id)]

DocRaised(docs, calls, error) == [docs |-> docs, calls |-> calls, raised |-> error, url |-> NoUrl]

\* docs: the document store before the call; fails: the remote call that
\* fails, if any.  The result holds the store after the call.
save_doc(docs, calls, text, title, fails) ==
    LET id == Len(docs) + 1
        created == Append(docs, [id |-> id, name |-> title, text |-> <<>>])
        c1 == Append(calls, RemoteCall("files.create", 0, fails # "files.create"))
        c2 == Append(c1, RemoteCall("batchUpdate", 0, fails # "batchUpdate"))
    IN IF fails = "files.create" THEN DocRaised(docs, c1, "HttpError")
       ELSE IF fails = "batchUpdate" THEN DocRaised(created, c2, "HttpError")
       ELSE DocSaved([created EXCEPT ![id].text = text], c2, id)

AudioDone(docs, calls, transcript, summary, url) ==
    [docs |-> docs, calls |-> calls, raised |-> "",
     transcript |-> transcript, summary |-> summary, doc_url |-> url]

AudioRaised(docs, calls, error) ==
    [docs |-> docs, calls |-> calls, raised |-> error,
     transcript |-> <<>>, summary |-> <<>>, doc_url |-> NoUrl]

\* line 722: the summary, a rule of dashes and a heading (written as one
\* dash here), and the transcript
FullText(summary, transcript) == summary \o <<"\n", "\n", "-", "\n">> \o transcript

\* line 721
DocTitle(meta) == <<"[AI minutes]", MetaGet(meta, "title").val>>

\* world: the step that fails, if any, the response of the recognition and
\* the text of the generation
process_audio(docs, meta, world) ==
    LET c1 == <<RemoteCall("upload_from_file", 0, world.fails # "upload_wav")>>
        c2 == Append(c1, RemoteCall("long_running_recognize", 0, world.fails # "transcribe"))
        transcript == transcribe(world.res)
        s_prompt == build_prompt("transcript", meta, [transcript_text |-> transcript])
        gen == run_gemini(c2, 0, [fails |-> world.fails = "generate_content", text |-> world.text])
        saved == save_doc(docs, gen.calls, FullText(gen.text, transcript), DocTitle(meta),
                          world.fails)
    IN IF world.fails = "to_wav" THEN AudioRaised(docs, <<>>, "RuntimeError: ffmpeg")
       ELSE IF world.fails = "upload_wav" THEN AudioRaised(docs, c1, "remote")
       ELSE IF world.fails = "transcribe" THEN AudioRaised(docs, c2, "remote")
       ELSE IF transcript = <<>> THEN AudioRaised(docs, c2, "RuntimeError: no speech")
       ELSE IF s_prompt.raised # "" THEN AudioRaised(docs, c2, s_prompt.raised)
       ELSE IF gen.raised # "" THEN AudioRaised(docs, gen.calls, gen.raised)
       ELSE IF saved.raised # "" THEN AudioRaised(saved.docs, saved.calls, saved.raised)
       ELSE AudioDone(saved.docs, saved.calls, transcript, gen.text, saved.url)

AudioSteps ==
    {"none", "to_wav", "upload_wav", "transcribe", "generate_content", "files.create",
     "batchUpdate"}

AudioResponses ==
    { [results |-> <<>>],
      [results |-> << [alternatives |-> << [transcript |-> <<" ", "a">>, words |-> <<>>] >>] >>],
      [results |-> << [alternatives |-> << [transcript |-> <<"a">>,
           words |-> << [word |-> <<"a">>, speaker_tag |-> PyInt(1)] >>] >>] >>] }

AudioWorlds == [fails : AudioSteps, res : AudioResponses, text : {<<>>, <<" ">>, <<"S", " ">>}]

InitAudio ==
    /\ pc = "audio_idle"
    /\ session = init_state
    /\ remote = NoRemote
    /\ arg = [action |-> "none", before |-> <<>>, last_ok |-> AudioRaised(<<>>, <<>>, ""),
              runs |-> 0]
    /\ ret = AudioRaised(<<>>, <<>>, "")
    /\ roster_df = roster_empty
    /\ shown = <<>>

\* lines 769-777 and 788-802: the two buttons of the first tab, which differ
\* in where the audio comes from
AudioButton(source) ==
    /\ pc = "audio_idle"
    /\ arg.runs < MaxRuns
    /\ \E world \in AudioWorlds :
         \E res \in {process_audio(remote.docs, FullMeta, world)} :
            /\ remote' = [remote EXCEPT !.docs = res.docs, !.calls = res.calls]
            /\ session' = IF res.raised = ""
                          THEN [session EXCEPT !.last_transcript = res.transcript,
                                               !.last_summary = res.summary,
                                               !.last_doc_url = res.doc_url]
                          ELSE session
            /\ shown' = <<IF res.raised = "" THEN "done" ELSE "processing failed">>
            /\ ret' = res
            /\ arg' = [action |-> source, before |-> remote.docs,
                       last_ok |-> IF res.raised = "" THEN [res EXCEPT !.calls = <<>>, !.docs = <<>>]
                                   ELSE arg.last_ok,
                       runs |-> arg.runs + 1]
    /\ UNCHANGED <<pc, roster_df>>

AudioUploadButton == AudioButton("btn_audio_upload")

AudioRecordButton == AudioButton("btn_audio_record")

\* lines 840-846: the prompt of the second tab is sent to the generation
PromptRunButton ==
    /\ pc = "audio_idle"
    /\ \E kind \in {"memo", "followup"}, reply \in GenerateReplies({<<>>, <<"P">>}) :
         \E prompt_text \in {build_prompt(kind, FullMeta, <<>>)} :
           \E res \in {run_gemini(<<>>, 0, reply)} :
            /\ prompt_text.raised = ""
            /\ remote' = [remote EXCEPT !.calls = res.calls]
            /\ session' = IF res.raised = ""
                          THEN [session EXCEPT !.prompt_out = res.text, !.prompt_kind = kind]
                          ELSE session
            /\ shown' = IF res.raised = "" THEN <<>> ELSE <<"run failed">>
            /\ ret' = AudioRaised(remote.docs, res.calls, res.raised)
    /\ arg' = [arg EXCEPT !.action = "btn_prompt_run", !.before = remote.docs]
    /\ UNCHANGED <<pc, roster_df>>

\* lines 857-863: the generated text is saved as a document
PromptSaveButton ==
    /\ pc = "audio_idle"
    /\ arg.runs < MaxRuns
    /\ session.prompt_out # <<>>
    /\ \E fails \in {"none", "files.create", "batchUpdate"} :
         \E res \in {save_doc(remote.docs, <<>>, session.prompt_out,
                              <<"[AI minutes]", session.prompt_kind>>, fails)} :
            /\ remote' = [remote EXCEPT !.docs = res.docs, !.calls = res.calls]
            /\ session' = IF res.raised = "" THEN [session EXCEPT !.last_doc_url = res.url]
                          ELSE session
            /\ shown' = <<IF res.raised = "" THEN "saved" ELSE "save failed">>
            /\ ret' = AudioRaised(res.docs, res.calls, res.raised)
    /\ arg' = [arg EXCEPT !.action = "btn_prompt_save", !.before = remote.docs,
                          !.runs = arg.runs + 1]
    /\ UNCHANGED <<pc, roster_df>>

NextAudio == AudioUploadButton \/ AudioRecordButton \/ PromptRunButton \/ PromptSaveButton

SpecAudio == InitAudio /\ [][NextAudio]_vars

IsAudioRun == arg.action \in {"btn_audio_upload", "btn_audio_record"}

\* C11: a run of the audio pipeline that ended in error leaves no document
\* behind: the document store is what it was before the run.
C11_NoPartialDocument ==
    (IsAudioRun /\ ret.raised # "") => remote.docs = arg.before

\* C19: last_transcript, last_summary and last_doc_url are at every moment
\* the three results of the last successful run of the audio pipeline (all
\* empty before the first): they are written together, by such a run only.
C19_ResultsOfOneRun ==
    /\ session.last_transcript = arg.last_ok.transcript
    /\ session.last_summary = arg.last_ok.summary
    /\ session.last_doc_url = arg.last_ok.doc_url

-----------------------------------------------------------------------------
(* The mail of the third tab: followup_fallback, build_mail, the two       *)
(* backends, and the preview and send blocks.                              *)

\* sub in s
Contains(s, sub) == \E i \in 0..(Len(s) - Len(sub)) : SubSeq(s, i + 1, i + Len(sub)) = sub

\* sep.join(parts) for a separator of any length
RECURSIVE JoinText(_, _)
JoinText(parts, sep) ==
    IF parts = <<>> THEN <<>>
    ELSE IF Len(parts) = 1 THEN parts[1]
    ELSE parts[1] \o sep \o JoinText(Tail(parts), sep)

\* value or default
OrElse(value, default) == IF value # <<>> THEN value ELSE default

\* the text "(to be confirmed)" of the templates, written "?"
ToConfirm == <<"?">>

\* lines 534-536: the lines that hold the name, trimmed, five at most
personal_actions(summary, name) ==
    LET lines == Splitlines(summary)
        out == Seq1([i \in 1..Len(lines) |-> Strip(lines[i])])
        named == Pick(out, {i \in 1..Len(lines) : Contains(lines[i], name)})
    IN IF named # <<>> THEN SubSeq(named, 1, IF Len(named) < 5 THEN Len(named) ELSE 5)
       ELSE << ToConfirm >>

\* lines 539-549, the fixed text of each section shortened to its number
followup_fallback(name, title, summary, doc_url, refs, sign) ==
    LET items == personal_actions(summary, name)
        acts == Join(Seq1([i \in 1..Len(items) |-> <<"-", " ">> \o items[i]]), "\n")
    IN <<"H", "i", " ">> \o name \o <<"\n", "2", " ">> \o OrElse(title, ToConfirm)
       \o <<"\n", "3", " ">> \o name \o <<"\n">> \o acts
       \o <<"\n", "6", " ">> \o OrElse(doc_url, ToConfirm) \o <<" ">> \o OrElse(refs, ToConfirm)
       \o <<"\n">> \o sign

\* line 998
invite_fallback(invite_info) == <<"H", "i", "\n">> \o invite_info \o <<"\n", "T", "y">>

\* lines 1000-1008 and 1030-1038
Preview(r, cc_manual, bcc_manual, sub, body) ==
    [name |-> r.name, to |-> r.email, cc |-> cc_for(r, cc_manual), bcc |-> bcc_manual,
     subject |-> sub, body |-> body]

Previewed(previews, calls) == [raised |-> "", previews |-> previews, calls |-> calls]

PreviewRaised(calls, error) == [raised |-> error, previews |-> <<>>, calls |-> calls]

\* the meta values the mail blocks read, as texts
MetaText(meta, key) ==
    IF MetaGet(meta, key).val = "" THEN <<>> ELSE <<MetaGet(meta, key).val>>

\* the follow-up loop with the generation call outside any try
RECURSIVE followup_previews_without_try(_, _, _, _, _, _, _)
followup_previews_without_try(recipients, i, replies, meta, form, previews, calls) ==
    IF i > Len(recipients) THEN Previewed(previews, calls)
    ELSE LET r == recipients[i]
             gen == run_gemini(calls, i, replies[i])
             parsed == parse_subject_body(gen.text, form.subject)
         IN IF gen.raised # "" THEN PreviewRaised(gen.calls, gen.raised)
            ELSE followup_previews_without_try(recipients, i + 1, replies, meta, form,
                     Append(previews, Preview(r, form.cc_manual, form.bcc_manual,
                                              parsed.subject, parsed.body)),
                     gen.calls)

\* lines 1011-1039, from recipient i on; replies[i] is what the generation
\* does with the call made for recipient i
RECURSIVE followup_previews(_, _, _, _, _, _, _)
followup_previews(recipients, i, replies, meta, form, previews, calls) ==
    IF i > Len(recipients) THEN Previewed(previews, calls)
    ELSE LET r == recipients[i]
             ptxt == build_prompt("followup", meta,
                                  [recipient_name |-> r.name, subject |-> form.subject,
                                   doc_url |-> form.doc_url, refs |-> MetaText(meta, "refs"),
                                   signature |-> form.sign, summary |-> form.summary_text])
             gen == run_gemini(calls, i, replies[i])
             parsed == parse_subject_body(gen.text, form.subject)
             sub == IF gen.raised = "" THEN parsed.subject ELSE form.subject
             body == IF gen.raised = "" THEN parsed.body
                     ELSE followup_fallback(r.name, MetaText(meta, "title"), form.summary_text,
                                            form.doc_url, MetaText(meta, "refs"), form.sign)
         IN IF ptxt.raised # "" THEN PreviewRaised(calls, ptxt.raised)
            ELSE followup_previews(recipients, i + 1, replies, meta, form,
                     Append(previews, Preview(r, form.cc_manual, form.bcc_manual, sub, body)),
                     gen.calls)

\* lines 994-1009: one generation call, one body for every recipient
invite_previews(recipients, replies, meta, form) ==
    LET ptxt == build_prompt("invite", meta, [meeting_info |-> form.invite_info])
        gen == run_gemini(<<>>, 0, replies[1])
        body == IF gen.raised = "" THEN gen.text ELSE invite_fallback(form.invite_info)
    IN IF ptxt.raised # "" THEN PreviewRaised(<<>>, ptxt.raised)
       ELSE Previewed(Seq1([i \in 1..Len(recipients) |->
                              Preview(recipients[i], form.cc_manual, form.bcc_manual,
                                      form.subject, body)]),
                      gen.calls)

\* line 571
FromHeader(sender_name, sender_email) == sender_name \o <<" ", "<">> \o sender_email \o <<">">>

\* lines 569-585: the headers of the message (a missing Cc header is written
\* as the empty text) and the envelope recipients
build_mail(sender_name, sender_email, to, cc, bcc, subject, body) ==
    [msg |-> [From |-> FromHeader(sender_name, sender_email), To |-> to,
              Cc |-> IF cc # <<>> THEN JoinText(cc, <<",", " ">>) ELSE <<>>,
              Subject |-> subject, body |-> body],
     rcpts |-> uniq(<<to>> \o cc \o bcc)]

\* the addresses of an address-list header
HeaderAddresses(header) ==
    LET parts == Split(header, ",")
    IN SelectSeq(Seq1([i \in 1..Len(parts) |-> Strip(parts[i])]), LAMBDA a : a # <<>>)

Sent(calls, mail) == [raised |-> "", calls |-> calls, mail |-> <<mail>>]

SendRaised(calls, error) == [raised |-> error, calls |-> calls, mail |-> <<>>]

\* lines 588-595: the service is given the message alone and delivers it to
\* the addresses of its To, Cc and Bcc headers
send_gmail(calls, target, msg, cfg, outcome) ==
    IF cfg.gmail_impersonate = <<>> THEN SendRaised(calls, "ValueError")
    ELSE IF outcome # "ok"
    THEN SendRaised(Append(calls, RemoteCall("messages.send", target, FALSE)), "HttpError")
    ELSE Sent(Append(calls, RemoteCall("messages.send", target, TRUE)),
              [backend |-> "Gmail API", From |-> msg.From, Subject |-> msg.Subject,
               addresses |-> <<msg.To>> \o HeaderAddresses(msg.Cc)])

\* lines 598-612: the server is given the message and the envelope recipients
send_smtp(calls, target, msg, rcpts, cfg, outcome) ==
    IF cfg.smtp_host = <<>> THEN SendRaised(calls, "ValueError")
    ELSE IF outcome = "connect fails"
    THEN SendRaised(Append(calls, RemoteCall("smtplib.SMTP", target, FALSE)), "OSError")
    ELSE LET connected == Append(calls, RemoteCall("smtplib.SMTP", target, TRUE))
         IN IF outcome # "ok"
            THEN SendRaised(Append(connected, RemoteCall("sendmail", target, FALSE)),
                            "SMTPException")
            ELSE Sent(Append(connected, RemoteCall("sendmail", target, TRUE)),
                      [backend |-> "SMTP", From |-> msg.From, Subject |-> msg.Subject,
                       addresses |-> rcpts])

\* lines 945-952: the backends the settings allow
backends(cfg) ==
    LET options == (IF cfg.gmail_impersonate # <<>> THEN <<"Gmail API">> ELSE <<>>)
                   \o (IF cfg.smtp_host # <<>> THEN <<"SMTP">> ELSE <<>>)
    IN IF options = <<>> THEN <<"disabled">> ELSE options

\* lines 955-962: a change of backend resets the sender
sender_defaults(s, backend, cfg) ==
    IF s.sender_backend = backend THEN s
    ELSE [s EXCEPT !.sender_backend = backend,
                   !.sender_name = IF backend = "SMTP" THEN cfg.smtp_name ELSE cfg.gmail_name,
                   !.sender_email = IF backend = "SMTP" THEN OrElse(cfg.smtp_from, cfg.smtp_user)
                                    ELSE cfg.gmail_impersonate]

\* what every run of the script does to the session on its way to the
\* buttons (lines 920-921 and 953-962)
ScriptRun(s, cfg) == sender_defaults([s EXCEPT !.ext_df = ext_norm(s.ext_df)], s.email_backend, cfg)

\* the send block with the sender's address left as typed
sender_address_as_typed(backend, s_email, cfg) == s_email

\* lines 1065-1068
sender_address(backend, s_email, cfg) ==
    IF /\ backend = "Gmail API"
       /\ cfg.gmail_impersonate # <<>>
       /\ Lower(s_email) # Lower(cfg.gmail_impersonate)
    THEN cfg.gmail_impersonate
    ELSE s_email

NothingSent == [ok |-> 0, fail |-> <<>>, calls |-> <<>>, outbox |-> <<>>]

\* the send loop that ends at the first failure
RECURSIVE send_loop_stops_at_failure(_, _, _, _, _, _)
send_loop_stops_at_failure(previews, i, outcomes, sender, cfg, acc) ==
    IF i > Len(previews) THEN acc
    ELSE LET pv == previews[i]
             built == build_mail(sender.name, sender.email, pv.to, pv.cc, pv.bcc,
                                 pv.subject, pv.body)
             res == IF sender.backend = "Gmail API"
                    THEN send_gmail(acc.calls, i, built.msg, cfg, outcomes[i])
                    ELSE send_smtp(acc.calls, i, built.msg, built.rcpts, cfg, outcomes[i])
         IN IF res.raised = ""
            THEN send_loop_stops_at_failure(previews, i + 1, outcomes, sender, cfg,
                     [ok |-> acc.ok + 1, fail |-> acc.fail, calls |-> res.calls,
                      outbox |-> acc.outbox \o res.mail])
            ELSE [ok |-> acc.ok, fail |-> Append(acc.fail, [to |-> pv.to, error |-> res.raised]),
                  calls |-> res.calls, outbox |-> acc.outbox]

\* lines 1072-1090, from preview i on; outcomes[i] is what the backend does
\* with the mail of preview i
RECURSIVE send_loop(_, _, _, _, _, _)
send_loop(previews, i, outcomes, sender, cfg, acc) ==
    IF i > Len(previews) THEN acc
    ELSE LET pv == previews[i]
             built == build_mail(sender.name, sender.email, pv.to, pv.cc, pv.bcc,
                                 pv.subject, pv.body)
             res == IF sender.backend = "Gmail API"
                    THEN send_gmail(acc.calls, i, built.msg, cfg, outcomes[i])
                    ELSE send_smtp(acc.calls, i, built.msg, built.rcpts, cfg, outcomes[i])
         IN send_loop(previews, i + 1, outcomes, sender, cfg,
                IF res.raised = ""
                THEN [ok |-> acc.ok + 1, fail |-> acc.fail, calls |-> res.calls,
                      outbox |-> acc.outbox \o res.mail]
                ELSE [ok |-> acc.ok,
                      fail |-> Append(acc.fail, [to |-> pv.to, error |-> res.raised]),
                      calls |-> res.calls, outbox |-> acc.outbox])

\* lines 1060-1090
send_block(s, backend, cfg, outcomes) ==
    LET s_name == Strip(s.sender_name)
        s_email == Strip(s.sender_email)
    IN IF s_name = <<>> \/ s_email = <<>> THEN NothingSent
       ELSE send_loop(s.email_previews, 1, outcomes,
                      [name |-> s_name, email |-> sender_address(backend, s_email, cfg),
                       backend |-> backend], cfg, NothingSent)

\* lines 986-1040: the previews to store, or none to store
preview_block(recipients, backend, mode, replies, meta, form) ==
    IF recipients = <<>> THEN PreviewRaised(<<>>, "no recipients")
    ELSE IF backend = "disabled" THEN PreviewRaised(<<>>, "no backend")
    ELSE IF mode = "invite" THEN invite_previews(recipients, replies, meta, form)
    ELSE followup_previews(recipients, 1, replies, meta, form, <<>>, <<>>)

\* load_settings: the mail settings (lines 91-97); a text is empty when the
\* setting is missing
MailSettings ==
    { [gmail_impersonate |-> <<>>, gmail_name |-> <<"N">>, smtp_host |-> <<>>,
       smtp_user |-> <<>>, smtp_from |-> <<>>, smtp_name |-> <<"N">>],
      [gmail_impersonate |-> <<"g">>, gmail_name |-> <<"N">>, smtp_host |-> <<"h">>,
       smtp_user |-> <<"s">>, smtp_from |-> <<>>, smtp_name |-> <<"N", "s">>] }

\* the session's roster: K, whose manager is copied by default
MailRoster ==
    DataFrame(AllCols, << RosterRow(<<"K">>, <<"k">>, <<"T">>, <<"D">>, TRUE, <<"m">>) >>)

\* what the multiselect can hold (line 903)
NameSelections == {<<>>, << <<"K">> >>}

\* the rows of the external grid as the editor returns them (line 920)
ExternalGrids == {<<>>, << <<PyStr(<<"X">>), PyStr(<<"x", " ">>)>> >>}

\* the texts typed into the form of the mail (lines 966-983)
MailForms ==
    {[subject |-> <<"R", "e">>, cc_manual |-> parse_email_csv(cc), bcc_manual |-> parse_email_csv(bcc),
      summary_text |-> <<"K", " ", "d", "\n", "z">>, doc_url |-> <<>>, sign |-> <<"s", "g">>,
      invite_info |-> <<"i">>] :
        <<cc, bcc>> \in {<< <<>>, <<>> >>, << <<"c", ";", "C">>, <<"b">> >>}}

NoForm ==
    [subject |-> <<>>, cc_manual |-> <<>>, bcc_manual |-> <<>>, summary_text |-> <<>>,
     doc_url |-> <<>>, sign |-> <<>>, invite_info |-> <<>>]

\* a generated mail with a subject line
SubjectText == <<"S", "u", "b", "j", "e", "c", "t", ":", "x", "\n", "B", " ">>

MailReplies == GenerateReplies({<<>>, SubjectText})

SendOutcomes == {"ok", "connect fails", "send fails"}

\* what the model remembers of the last press of a button
Pressed(cfg, action, recipients, mode, form, replies, outcomes) ==
    [cfg |-> cfg, action |-> action, recipients |-> recipients, mode |-> mode, form |-> form,
     replies |-> replies, outcomes |-> outcomes]

\* the session after the first run of the script
InitMail ==
    /\ pc = "mail_idle"
    /\ roster_df = MailRoster
    /\ \E cfg \in MailSettings :
          /\ arg = Pressed(cfg, "none", <<>>, "", NoForm, <<>>, <<>>)
          /\ session = ScriptRun([init_state EXCEPT !.email_backend = backends(cfg)[1]], cfg)
    /\ remote = NoRemote
    /\ ret = NothingSent
    /\ shown = <<>>

\* a widget changed: the script runs, no button is pressed
Changed(s) ==
    /\ session' = ScriptRun(s, arg.cfg)
    /\ arg' = Pressed(arg.cfg, "none", <<>>, "", NoForm, <<>>, <<>>)
    /\ remote' = [remote EXCEPT !.calls = <<>>, !.outbox = <<>>]
    /\ ret' = NothingSent
    /\ shown' = <<>>
    /\ UNCHANGED <<pc, roster_df>>

\* line 903
SelectNames ==
    /\ pc = "mail_idle"
    /\ \E names \in NameSelections \ {session.selected_names} :
          Changed([session EXCEPT !.selected_names = names])

\* lines 920-921
EditExternal ==
    /\ pc = "mail_idle"
    /\ \E rows \in ExternalGrids :
          /\ DataFrame(ExtCols, rows) # session.ext_df
          /\ Changed([session EXCEPT !.ext_df = DataFrame(ExtCols, rows)])

\* line 953
ChooseBackend ==
    /\ pc = "mail_idle"
    /\ \E i \in 1..Len(backends(arg.cfg)) :
          /\ backends(arg.cfg)[i] # session.email_backend
          /\ Changed([session EXCEPT !.email_backend = backends(arg.cfg)[i]])

\* what the user types over the sender's name and address
TypedSenders ==
    { <<<<"N">>, <<"G", " ">>>>, <<<<"N">>, <<"u">>>>, <<<<" ">>, <<"u">>>>, <<<<"N">>, <<>>>> }

\* lines 964-965
TypeSender ==
    /\ pc = "mail_idle"
    /\ \E typed \in TypedSenders :
          /\ typed # <<session.sender_name, session.sender_email>>
          /\ Changed([session EXCEPT !.sender_name = typed[1], !.sender_email = typed[2]])

\* lines 985-1041
PreviewButton ==
    /\ pc = "mail_idle"
    /\ \E mode \in {"invite", "followup"}, form \in MailForms :
        \E s \in {ScriptRun(session, arg.cfg)} :
         \E recipients \in {build_recipients(roster_df, s.selected_names, s.ext_df)} :
          \E replies \in [1..(IF mode = "invite" THEN 1 ELSE Len(recipients)) -> MailReplies] :
           \E res \in {preview_block(recipients, s.email_backend, mode, replies, FullMeta, form)} :
             /\ session' = IF res.raised = "" THEN [s EXCEPT !.email_previews = res.previews]
                           ELSE s
             /\ remote' = [remote EXCEPT !.calls = res.calls, !.outbox = <<>>]
             /\ shown' = <<IF res.raised = "" THEN "previews made" ELSE res.raised>>
             /\ arg' = Pressed(arg.cfg, "btn_preview_email", recipients, mode, form, replies, <<>>)
    /\ ret' = NothingSent
    /\ UNCHANGED <<pc, roster_df>>

\* lines 1059-1094; the button is disabled without previews or backend
SendButton ==
    /\ pc = "mail_idle"
    /\ \E s \in {ScriptRun(session, arg.cfg)} :
          /\ s.email_previews # <<>>
          /\ s.email_backend # "disabled"
          /\ \E outcomes \in [1..Len(s.email_previews) -> SendOutcomes] :
               \E res \in {send_block(s, s.email_backend, arg.cfg, outcomes)} :
                 /\ session' = s
                 /\ remote' = [remote EXCEPT !.calls = res.calls, !.outbox = res.outbox]
                 /\ ret' = res
                 /\ shown' = (IF Strip(s.sender_name) = <<>> \/ Strip(s.sender_email) = <<>>
                              THEN <<"enter the sender">> ELSE <<>>)
                             \o (IF res.ok > 0 THEN <<"sent">> ELSE <<>>)
                             \o (IF res.fail # <<>> THEN <<"send failed">> ELSE <<>>)
                 /\ arg' = Pressed(arg.cfg, "btn_send",
                                   build_recipients(roster_df, s.selected_names, s.ext_df),
                                   "", NoForm, <<>>, outcomes)
    /\ UNCHANGED <<pc, roster_df>>

NextMail ==
    SelectNames \/ EditExternal \/ ChooseBackend \/ TypeSender \/ PreviewButton \/ SendButton

SpecMail == InitMail /\ [][NextMail]_vars

\* a send was pressed with a sender name and address that are not blank
SendRan ==
    /\ arg.action = "btn_send"
    /\ Strip(session.sender_name) # <<>>
    /\ Strip(session.sender_email) # <<>>

\* the previews whose mail the backend did not accept
FailedPreviews == {i \in 1..Len(arg.outcomes) : arg.outcomes[i] # "ok"}

\* the generation call for recipient i raised or gave no text
GenerationFailed(i) == arg.replies[i].fails \/ Strip(arg.replies[i].text) = <<>>

\* C12: a follow-up preview action with recipients stores one preview per
\* recipient, in the recipients' order, addressed to the recipient; the
\* preview of a recipient whose generation call raised or gave no text has
\* the form's subject and the fallback body written for that recipient, and
\* the preview of every other recipient has the subject and the body of its
\* own generated text, whatever happened to the calls of the others.
C12_FollowupPerRecipient ==
    (arg.action = "btn_preview_email" /\ arg.mode = "followup" /\ arg.recipients # <<>>
        /\ session.email_backend # "disabled") =>
        LET pv == session.email_previews
        IN /\ Len(pv) = Len(arg.recipients)
           /\ \A i \in 1..Len(arg.recipients) :
                /\ i <= Len(pv)
                /\ pv[i].to = arg.recipients[i].email
                /\ pv[i].name = arg.recipients[i].name
                /\ GenerationFailed(i) =>
                      /\ pv[i].subject = arg.form.subject
                      /\ pv[i].body = followup_fallback(arg.recipients[i].name, <<"Weekly">>,
                                          arg.form.summary_text, arg.form.doc_url, <<>>,
                                          arg.form.sign)
                      /\ StartsWith(pv[i].body, <<"H", "i", " ">> \o arg.recipients[i].name)
                /\ ~GenerationFailed(i) =>
                      /\ pv[i].subject = <<"x">>
                      /\ pv[i].body = <<"B">>

\* the call for K raised, the call for X gave a mail with a subject line
C12_Witness ==
    /\ arg.action = "btn_preview_email"
    /\ arg.mode = "followup"
    /\ Len(arg.recipients) = 2
    /\ arg.replies[1].fails
    /\ arg.replies[2].text = SubjectText
    /\ Len(session.email_previews) = 2
    /\ session.email_previews[1].to = <<"k">>
    /\ session.email_previews[1].subject = <<"R", "e">>
    /\ session.email_previews[1].body =
          <<"H", "i", " ", "K", "\n", "2", " ", "Weekly", "\n", "3", " ", "K", "\n",
            "-", " ", "K", " ", "d", "\n", "6", " ", "?", " ", "?", "\n", "s", "g">>
    /\ session.email_previews[2].to = <<"x">>
    /\ session.email_previews[2].subject = <<"x">>

\* C13: a press of send that passes the check of the sender attempts every
\* stored preview exactly once, failed or not; the failures recorded are the
\* To addresses of the previews whose send failed, in order; and the number
\* of successes plus the number of failures is the number of previews.
C13_SendIsolation ==
    SendRan =>
        LET pv == session.email_previews
            first == {"messages.send", "smtplib.SMTP"}
        IN /\ \A i \in 1..Len(pv) :
                Cardinality({j \in 1..Len(remote.calls) :
                                remote.calls[j].target = i /\ remote.calls[j].kind \in first}) = 1
           /\ Len(ret.fail) = Cardinality(FailedPreviews)
           /\ [k \in 1..Len(ret.fail) |-> ret.fail[k].to]
                 = Pick([i \in 1..Len(pv) |-> pv[i].to], FailedPreviews)
           /\ ret.ok + Len(ret.fail) = Len(pv)
           /\ ret.ok = Len(remote.outbox)

\* the mail to K failed, the mail to X went out
C13_Witness ==
    /\ SendRan
    /\ Len(session.email_previews) = 2
    /\ arg.outcomes = <<"send fails", "ok">>
    /\ ret.ok = 1
    /\ Len(ret.fail) = 1 /\ ret.fail[1].to = <<"k">>
    /\ Len(remote.outbox) = 1 /\ remote.outbox[1].addresses[1] = <<"x">>

\* the calls of the action in progress, or of the last one
SameCall(c, d) == c.kind = d.kind /\ c.target = d.target

\* C14: within one user action no remote call is issued twice (transcription,
\* generation, document and roster requests once, generation and mail once
\* per recipient or preview), and once a call failed, nothing more is called
\* for the same recipient or preview (for the whole action when the call is
\* not made per recipient) before the user's next action.
C14_NoRetry ==
    \A i, j \in 1..Len(remote.calls) :
        i < j => /\ ~SameCall(remote.calls[i], remote.calls[j])
                 /\ ~remote.calls[i].ok => remote.calls[j].target # remote.calls[i].target

\* a follow-up preview of two recipients whose first generation call raised
C14_Witness ==
    /\ arg.action = "btn_preview_email"
    /\ remote.calls = << RemoteCall("generate_content", 1, FALSE),
                         RemoteCall("generate_content", 2, TRUE) >>

\* the buttons of the three tabs; the tabs share no state that the calls
\* depend on, so each behaviour stays within one of them
InitCalls == InitAudio \/ InitDrive \/ InitMail

NextCalls == NextAudio \/ NextDrive \/ NextMail

SpecCalls == InitCalls /\ [][NextCalls]_vars

\* the addresses of a list, without regard to letter case
AddressSet(list) == {Lower(list[i]) : i \in 1..Len(list)}

\* C15: for every stored preview, the Gmail API backend and the SMTP backend
\* are given the same delivery addresses: the To address, every CC and every
\* BCC of the preview.
C15_SameDeliveryAddresses ==
    (arg.cfg.gmail_impersonate # <<>> /\ arg.cfg.smtp_host # <<>>) =>
        \A i \in 1..Len(session.email_previews) :
            LET pv == session.email_previews[i]
                built == build_mail(<<"N">>, <<"g">>, pv.to, pv.cc, pv.bcc, pv.subject, pv.body)
                gmail == send_gmail(<<>>, i, built.msg, arg.cfg, "ok")
                smtp == send_smtp(<<>>, i, built.msg, built.rcpts, arg.cfg, "ok")
            IN /\ AddressSet(smtp.mail[1].addresses) = AddressSet(<<pv.to>> \o pv.cc \o pv.bcc)
               /\ AddressSet(gmail.mail[1].addresses) = AddressSet(smtp.mail[1].addresses)

\* C17: when send runs while no roster name is selected and the external
\* table has no row, no mail is sent.
C17_NothingSelectedNothingSent ==
    (arg.action = "btn_send" /\ session.selected_names = <<>> /\ session.ext_df.rows = <<>>) =>
        (remote.outbox = <<>> /\ ret.ok = 0)

\* the address between the angle brackets of a From header
AddressOf(from) ==
    LET open == Last({i \in 1..Len(from) : from[i] = "<"})
    IN SubSeq(from, open + 1, Len(from) - 1)

\* C20: a press of send with a sender name or address that is blank after
\* trimming makes no mail call; and every mail sent by the Gmail API backend
\* has the impersonated account of the settings as the address of its From
\* header (letter case apart), whatever address the user typed.
C20_SenderGuard ==
    arg.action = "btn_send" =>
        /\ (Strip(session.sender_name) = <<>> \/ Strip(session.sender_email) = <<>>) =>
              (remote.calls = <<>> /\ remote.outbox = <<>> /\ ret.ok = 0 /\ ret.fail = <<>>)
        /\ session.email_backend = "Gmail API" =>
              \A k \in 1..Len(remote.outbox) :
                 /\ remote.outbox[k].backend = "Gmail API"
                 /\ Lower(AddressOf(remote.outbox[k].From)) = Lower(arg.cfg.gmail_impersonate)

\* the user typed another address; the mail sent by the Gmail API backend is
\* from the impersonated account
C20_Witness ==
    /\ arg.action = "btn_send"
    /\ session.email_backend = "Gmail API"
    /\ session.sender_email = <<"u">>
    /\ Len(remote.outbox) >= 1
    /\ remote.outbox[1].From = <<"N", " ", "<", "g", ">">>

=============================================================================
